---- MODULE Spec2Model ----
(***************************************************************************)
(* State-machine model of node-sie-serial.                                 *)
(*                                                                         *)
(*   SpecIo   the block I/O engine of src/io.ts: ioReadMemory and          *)
(*            ioWriteMemory driving a chunk primitive that may fail,       *)
(*            with retry budget, adaptive page size, abort signal and the  *)
(*            progress tracker.                                            *)
(*   SpecAt   the AtChannel: concurrent sendRawCommand calls, the command  *)
(*            timers, start/stop, port close, and whole reply lines        *)
(*            arriving as data events.  SpecAtLive adds the fairness of    *)
(*            the timers and of the promise continuations.                 *)
(*   SpecAtBytes  the AtChannel fed an arbitrary byte stream cut into      *)
(*            arbitrary data events.                                       *)
(***************************************************************************)
EXTENDS Integers, Sequences, FiniteSets, TLC

(***************************************************************************)
(* Bounds of the model.                                                    *)
(***************************************************************************)
MaxAddress == 2
MaxLength == 4
MaxPageSize == 3
MaxRetries == 2
MaxErrors == 3

\* the page size used when options.pageSize is absent (0x100000000 in the source;
\* the largest integer of the checker stands for it: it exceeds every api.pageSize)
DefaultPageSize == 2147483647

Min(a, b) == IF a <= b THEN a ELSE b

VARIABLES
    \* ---- I/O engine: the call's arguments
    ioOp,                 \* "read" (ioReadMemory) or "write" (ioWriteMemory)
    ioAddress,            \* address
    ioLength,             \* length / buffer.length (= total)
    api,                  \* IoReadApi / IoWriteApi
    progressInterval,     \* validOptions.progressInterval
    aborted,              \* validOptions.signal.aborted
    \* ---- I/O engine: locals of the running call
    ioPc,                 \* "idle", "loop", "chunk", "returned", "thrown"
    cursor, canceled, errors, retriesCount, pageSizeErrorsCount, pageSize,
    chunk,                \* the pending call of api.read / api.write
    ioResult,             \* the IoReadResult / IoWriteResult returned
    ioThrown,             \* the error the call threw
    progress,             \* ioProgressTracker closure state + what onProgress saw
    \* ---- I/O engine: observation of the chunk primitive
    io,
    \* ---- AT channel
    port,                 \* the AsyncSerialPort: isOpen, the commands written to it
    at,                   \* the AtChannel object, its commands and what it dispatched
    \* ---- binary AT reply
    wire,                 \* the reply the phone sends to a binary command, and how far
    \* ---- BFC
    bfc,                  \* the BFC object, its exec calls and what it wrote
    \* ---- ChaosLoader
    chaos,                \* the ChaosLoader object: heartbeat timer, running request
    frame,                \* one BFC frame: as given to sendFrame, its bytes, the receive path
    cio,                  \* ChaosLoader.readMemory / writeMemory: the locals of the running call
    rd,                   \* ChaosLoader.readMemory, byte by byte: buffer, cursor, last response
    enc,                  \* a DWD frame body and its AT encapsulation
    dwd,                  \* the DWD object: keyset, handshake position, what it wrote
    flash,                \* a call of alignToFlashRegions and its outcome
    asp,                  \* the AsyncSerialPort and the operations called on it
    ard,                  \* AsyncSerialPort.read, byte by byte: the stream, the reads, what they returned
    bsl,                  \* a call of loadBootCode: the scan, the payload, the reply
    brd,                  \* BFC.readMemory: the locals of the running call
    sym,                  \* ioReadMemory and ioWriteMemory run side by side on one outcome sequence
    rxp,                  \* two BFC receive paths fed one byte stream in different data events
    bfq                   \* a connected BFC with several exec calls queued for one key

ioVars == <<ioOp, ioAddress, ioLength, api, progressInterval, aborted, ioPc,
            cursor, canceled, errors, retriesCount, pageSizeErrorsCount,
            pageSize, chunk, ioResult, ioThrown, progress, io>>

atVars == <<port, at>>

\* the state of the other components, which the I/O engine and the AT channel
\* do not touch
\* the state of the components modelled after the BFC frames
lateVars == <<ard, bsl, brd, sym, rxp, bfq>>

auxVars == <<cio, rd, enc, dwd, flash, asp, lateVars>>

\* everything but lateVars
oldVars == <<ioVars, atVars, wire, bfc, chaos, frame, cio, rd, enc, dwd, flash, asp>>

extVars == <<wire, bfc, chaos, frame, auxVars>>

vars == <<ioVars, atVars, extVars>>

(***************************************************************************)
(* I/O engine (src/src/io.ts)                                              *)
(***************************************************************************)
NoError == [kind |-> "none", n |-> 0]
IoError(kind) == [kind |-> kind, n |-> 0]
\* the error thrown by the n-th call of the chunk primitive
ChunkError(n) == [kind |-> "chunk", n |-> n]

NoChunk == [addr |-> 0, size |-> 0, pending |-> FALSE]
NoResult == [length |-> 0, canceled |-> FALSE, errors |-> 0]

NoAdaptive == [enabled |-> FALSE, smallPageSize |-> 0, smallPageRetryCount |-> 0,
               bigPageSize |-> 0, bigPageRetryCount |-> 0]

IoAdaptivePageSizeConfig ==
    {NoAdaptive} \cup
    [enabled : {TRUE}, smallPageSize : 0..2, smallPageRetryCount : 1..2,
     bigPageSize : {1, MaxPageSize}, bigPageRetryCount : 1..2]

\* api.align: 1 (DWD), 2, and 4 (CGSN.readMemory / CGSN.writeMemory)
Aligns == {1, 2, 4}

IoApi == [pageSize : 0..MaxPageSize, align : Aligns, maxRetries : 0..MaxRetries,
          adaptivePageSize : IoAdaptivePageSizeConfig]

\* (x % align) != 0
Misaligned(x, align) == (x % align) # 0

\* the checks made before the loop, in the order of the code; "none" when all pass
ioValidateAddressOnly(address, length, optPageSize, a) ==
    LET ps == Min(optPageSize, a.pageSize)
    IN  IF Misaligned(address, a.align) THEN "align_address"
        ELSE IF Misaligned(ps, a.align) THEN "align_page"
        ELSE "none"
ioValidate(address, length, optPageSize, a) ==
    LET ps == Min(optPageSize, a.pageSize)
        ad == a.adaptivePageSize
    IN  IF Misaligned(address, a.align) THEN "align_address"
        ELSE IF Misaligned(length, a.align) THEN "align_length"
        ELSE IF Misaligned(ps, a.align) THEN "align_page"
        ELSE IF ad.enabled /\ ad.smallPageSize > ad.bigPageSize THEN "adaptive_order"
        ELSE IF ad.enabled /\ (ad.smallPageSize % a.align # 0 \/ ad.bigPageSize % a.align # 0)
             THEN "adaptive_align"
        ELSE "none"

\* ---- ioProgressTracker
NoProgress == [progressCalled |-> FALSE, lastProgressCalled |-> 0, currentCursor |-> 0,
               calls |-> 0, last |-> -1, prev |-> -1]

\* reportProgressDirect: calls onProgress with cursor = currentCursor
reportProgressDirect(p) ==
    [p EXCEPT !.lastProgressCalled = 1, !.calls = p.calls + 1,
              !.prev = p.last, !.last = p.currentCursor]

\* Date.now() - lastProgressCalled >= progressInterval: a timer never called
\* (lastProgressCalled = 0) is always due, afterwards it depends on the clock
IntervalElapsed(p) == IF p.lastProgressCalled = 0 THEN {TRUE} ELSE BOOLEAN

progressReport(p, cur, interval, elapsed) ==
    LET p1 == [p EXCEPT !.currentCursor = cur]
    IN  IF interval = 0 \/ (elapsed /\ cur > 0)
        THEN [reportProgressDirect(p1) EXCEPT !.progressCalled = TRUE]
        ELSE [p1 EXCEPT !.progressCalled = FALSE]

\* stop(): the callback report() did not make is made now
progressStopAlways(p) == reportProgressDirect(p)
progressStop(p) == IF ~p.progressCalled THEN reportProgressDirect(p) ELSE p

\* ---- the loop
\* Math.min(buffer.length - cursor, pageSize)
ChunkSizeUnclamped(length, cur, ps) == ps
ChunkSize(length, cur, ps) == Min(length - cur, ps)

\* address + cursor, the address handed to the chunk primitive
ChunkAddressNoCursor(address, cur) == address
ChunkAddress(address, cur) == address + cur

\* !api.maxRetries || retriesCount >= api.maxRetries
RetriesExhaustedOffByOne(a, retries) == a.maxRetries = 0 \/ retries > a.maxRetries
RetriesExhausted(a, retries) == a.maxRetries = 0 \/ retries >= a.maxRetries

\* pageSize = Math.floor(pageSize / 2); pageSize -= pageSize % api.align
HalvePageSize(ps, align) == (ps \div 2) - ((ps \div 2) % align)

\* the adaptive block of the catch clause: the new page size and counter
AdaptPageSize(a, length, cur, ps, pse) ==
    LET ad == a.adaptivePageSize
        keep == [pageSize |-> ps, pageSizeErrorsCount |-> pse]
    IN  IF ~ad.enabled \/ ~(length - cur > ad.smallPageSize) THEN keep
        ELSE LET maxReadTries == IF ps >= ad.bigPageSize THEN ad.bigPageRetryCount
                                                         ELSE ad.smallPageRetryCount
             IN  IF pse + 1 >= maxReadTries
                 THEN [pageSize |-> IF ps > ad.smallPageSize
                                    THEN HalvePageSize(ps, a.align) ELSE ps,
                       pageSizeErrorsCount |-> 0]
                 ELSE [pageSize |-> ps, pageSizeErrorsCount |-> pse + 1]

\* pageSizeErrorsCount after a successful chunk: reset by the read loop only
PageSizeErrorsAfterSuccess(op, pse) == IF op = "read" THEN 0 ELSE pse

\* the length of the returned buffer (read) or `written` (write)
ResultLengthUntruncated(op, length, cur, isCanceled) == IF op = "read" THEN length ELSE cur
ResultLength(op, length, cur, isCanceled) ==
    IF op = "read" THEN (IF isCanceled THEN cur ELSE length) ELSE cur

\* what the chunk primitive saw: the bytes of its successful calls, whether a
\* successful call left a gap or an overlap, the address of the call that failed
\* last, whether the call after a failure moved, its calls in a row without a
\* success, its failures, and whether it was called with the signal aborted
NoIo == [okBytes |-> 0, gap |-> FALSE, lastFailed |-> -1, moved |-> FALSE,
         inRow |-> 0, failures |-> 0, calledAborted |-> FALSE, firstPageSize |-> 0]

\* validOptions.signal?.aborted
AbortObserved(signal) == signal

InitIo ==
    /\ ioOp = "read" /\ ioAddress = 0 /\ ioLength = 0
    /\ api = [pageSize |-> 0, align |-> 1, maxRetries |-> 0, adaptivePageSize |-> NoAdaptive]
    /\ progressInterval = 0 /\ aborted = FALSE
    /\ ioPc = "idle"
    /\ cursor = 0 /\ canceled = FALSE /\ errors = 0 /\ retriesCount = 0
    /\ pageSizeErrorsCount = 0 /\ pageSize = 0
    /\ chunk = NoChunk /\ ioResult = NoResult /\ ioThrown = NoError
    /\ progress = NoProgress /\ io = NoIo

\* ioReadMemory / ioWriteMemory up to the loop: the arguments and the checks
ioCall ==
    /\ ioPc = "idle"
    /\ \E op \in {"read", "write"}, address \in 0..MaxAddress, length \in 0..MaxLength,
          optPageSize \in {DefaultPageSize, 2}, a \in IoApi, interval \in {0, 100} :
        LET failure == ioValidate(address, length, optPageSize, a)
        IN  /\ ioOp' = op /\ ioAddress' = address /\ ioLength' = length
            /\ api' = a /\ progressInterval' = interval
            /\ pageSize' = IF failure \in {"align_address", "align_length"}
                           THEN 0 ELSE Min(optPageSize, a.pageSize)
            /\ IF failure = "none"
               THEN ioPc' = "loop" /\ ioThrown' = NoError
               ELSE ioPc' = "thrown" /\ ioThrown' = IoError(failure)
            /\ io' = [io EXCEPT !.firstPageSize = Min(optPageSize, a.pageSize)]
    /\ UNCHANGED <<atVars, extVars, aborted, cursor, canceled, errors, retriesCount, pageSizeErrorsCount,
                   chunk, ioResult, progress>>

\* the code after the loop: the last report, stop, and the result
ioFinish(isCanceled) ==
    /\ canceled' = isCanceled
    /\ \E elapsed \in IntervalElapsed(progress) :
        progress' = progressStop(progressReport(progress, cursor, progressInterval, elapsed))
    /\ ioResult' = [length |-> ResultLength(ioOp, ioLength, cursor, isCanceled),
                    canceled |-> isCanceled, errors |-> errors]
    /\ ioPc' = "returned"
    /\ UNCHANGED <<atVars, extVars, ioOp, ioAddress, ioLength, api, progressInterval, aborted, cursor, errors,
                   retriesCount, pageSizeErrorsCount, pageSize, chunk, ioThrown, io>>

\* while (cursor < buffer.length) is false
ioLoopExit ==
    /\ ioPc = "loop" /\ ~(cursor < ioLength)
    /\ ioFinish(FALSE)

\* if (validOptions.signal?.aborted) { canceled = true; break; }
ioLoopAbort ==
    /\ ioPc = "loop" /\ cursor < ioLength /\ AbortObserved(aborted)
    /\ ioFinish(TRUE)

\* progress.report(cursor, errors, size); api.read(address + cursor, size, ...)
ioLoopChunk ==
    /\ ioPc = "loop" /\ cursor < ioLength /\ ~AbortObserved(aborted)
    /\ LET size == ChunkSize(ioLength, cursor, pageSize)
       IN  /\ \E elapsed \in IntervalElapsed(progress) :
                progress' = [progressReport(progress, cursor, progressInterval, elapsed)
                             EXCEPT !.calls = 0]
           /\ chunk' = [addr |-> ChunkAddress(ioAddress, cursor), size |-> size, pending |-> TRUE]
           /\ io' = [io EXCEPT !.moved = io.moved \/ (io.lastFailed # -1 /\
                                           io.lastFailed # ChunkAddress(ioAddress, cursor)),
                               !.inRow = io.inRow + 1,
                               !.calledAborted = io.calledAborted \/ aborted]
    /\ ioPc' = "chunk"
    /\ UNCHANGED <<atVars, extVars, ioOp, ioAddress, ioLength, api, progressInterval, aborted, cursor, canceled,
                   errors, retriesCount, pageSizeErrorsCount, pageSize, ioResult, ioThrown>>

\* the chunk primitive returns: cursor += size; the counters reset
ioChunkOk ==
    /\ ioPc = "chunk"
    /\ cursor' = cursor + chunk.size
    /\ retriesCount' = 0
    /\ pageSizeErrorsCount' = PageSizeErrorsAfterSuccess(ioOp, pageSizeErrorsCount)
    /\ chunk' = [chunk EXCEPT !.pending = FALSE]
    /\ io' = [io EXCEPT !.okBytes = io.okBytes + chunk.size,
                        !.gap = io.gap \/ chunk.addr # ioAddress + io.okBytes,
                        !.lastFailed = -1, !.inRow = 0]
    /\ ioPc' = "loop"
    /\ UNCHANGED <<atVars, extVars, ioOp, ioAddress, ioLength, api, progressInterval, aborted, canceled, errors,
                   pageSize, ioResult, ioThrown, progress>>

\* the chunk primitive throws e: the catch clause
ioChunkFail ==
    /\ ioPc = "chunk"
    /\ errors < MaxErrors
    /\ errors' = errors + 1
    /\ retriesCount' = retriesCount + 1
    /\ chunk' = [chunk EXCEPT !.pending = FALSE]
    /\ io' = [io EXCEPT !.lastFailed = chunk.addr, !.failures = io.failures + 1]
    /\ IF RetriesExhausted(api, retriesCount + 1)
       THEN /\ ioPc' = "thrown" /\ ioThrown' = ChunkError(io.failures + 1)
            /\ UNCHANGED <<pageSize, pageSizeErrorsCount>>
       ELSE LET next == AdaptPageSize(api, ioLength, cursor, pageSize, pageSizeErrorsCount)
            IN  /\ pageSize' = next.pageSize
                /\ pageSizeErrorsCount' = next.pageSizeErrorsCount
                /\ IF next.pageSize = 0 /\ pageSize # 0
                   THEN ioPc' = "thrown" /\ ioThrown' = IoError("adaptive_zero")
                   ELSE ioPc' = "loop" /\ ioThrown' = NoError
    /\ UNCHANGED <<atVars, extVars, ioOp, ioAddress, ioLength, api, progressInterval, aborted, cursor, canceled,
                   ioResult, progress>>

\* the caller aborts the signal while the call runs
ioAbort ==
    /\ ioPc \in {"loop", "chunk"} /\ ~aborted
    /\ aborted' = TRUE
    /\ UNCHANGED <<atVars, extVars, ioOp, ioAddress, ioLength, api, progressInterval, ioPc, cursor, canceled,
                   errors, retriesCount, pageSizeErrorsCount, pageSize, chunk, ioResult,
                   ioThrown, progress, io>>

NextIo ==
    \/ ioCall
    \/ ioLoopExit
    \/ ioLoopAbort
    \/ ioLoopChunk
    \/ ioChunkOk
    \/ ioChunkFail
    \/ ioAbort


(***************************************************************************)
(* AT channel (src/unnamed/part_010, AtChannel) over the AsyncSerialPort   *)
(* (src/unnamed/part_011).  Text is a sequence of UTF-16 code units, data  *)
(* a sequence of bytes.                                                    *)
(***************************************************************************)
MaxCmds == 2
MaxData == 2

Cmds == 1..MaxCmds

CR == 13
LF == 10
ReplacementChar == 65533

\* "OK", "CONNECT", "ERROR", "+CMS ERROR", "+CME ERROR", "NO CARRIER",
\* "NO ANSWER", "NO DIALTONE", "TIMEOUT", "PORT_CLOSED"
StrOK == <<79, 75>>
StrCONNECT == <<67, 79, 78, 78, 69, 67, 84>>
StrERROR == <<69, 82, 82, 79, 82>>
StrCMSERROR == <<43, 67, 77, 83, 32>> \o StrERROR
StrCMEERROR == <<43, 67, 77, 69, 32>> \o StrERROR
StrNOCARRIER == <<78, 79, 32, 67, 65, 82, 82, 73, 69, 82>>
StrNOANSWER == <<78, 79, 32, 65, 78, 83, 87, 69, 82>>
StrNODIALTONE == <<78, 79, 32, 68, 73, 65, 76, 84, 79, 78, 69>>
StrTIMEOUT == <<84, 73, 77, 69, 79, 85, 84>>
StrPORTCLOSED == <<80, 79, 82, 84, 95, 67, 76, 79, 83, 69, 68>>

\* line.startsWith(prefix)
StartsWith(line, prefix) ==
    Len(line) >= Len(prefix) /\ SubSeq(line, 1, Len(prefix)) = prefix

\* line.match(/^[+*^!]/): '+' 43, '*' 42, '^' 94, '!' 33
LooksUnsolicited(line) == Len(line) > 0 /\ line[1] \in {43, 42, 94, 33}

\* line.match(/^[0-9]/)
StartsWithDigit(line) == Len(line) > 0 /\ line[1] \in 48..57

isErrorResponse(line, dial) ==
    \/ StartsWith(line, StrERROR) \/ StartsWith(line, StrCMSERROR) \/ StartsWith(line, StrCMEERROR)
    \/ dial /\ (StartsWith(line, StrNOCARRIER) \/ StartsWith(line, StrNOANSWER)
                \/ StartsWith(line, StrNODIALTONE))

isSuccessResponse(line, dial) == line = StrOK \/ (dial /\ line = StrCONNECT)

\* Buffer.toString(): UTF-8 decoding of the bytes of ONE data event.  A byte
\* below 0x80 is itself; a lead byte 0xC2..0xDF followed by a continuation byte
\* 0x80..0xBF is one code unit; a lead byte without its continuation (also at
\* the end of the data) and a lone continuation byte decode to U+FFFD.  (Longer
\* sequences do not occur in the byte sets of this model.)
RECURSIVE Utf8Decode(_)
Utf8Decode(data) ==
    IF data = <<>> THEN <<>>
    ELSE LET b == Head(data) IN
         IF b < 128 THEN <<b>> \o Utf8Decode(Tail(data))
         ELSE IF b \in 194..223 /\ Len(data) >= 2 /\ data[2] \in 128..191
              THEN <<(b - 192) * 64 + (data[2] - 128)>> \o Utf8Decode(Tail(Tail(data)))
              ELSE <<ReplacementChar>> \o Utf8Decode(Tail(data))

\* this.buffer.indexOf("\r\n"), 1-based; 0 when absent
IndexOfCRLF(text) ==
    LET hits == {i \in 1..(Len(text) - 1) : text[i] = CR /\ text[i + 1] = LF}
    IN  IF hits = {} THEN 0 ELSE CHOOSE i \in hits : \A j \in hits : i <= j

NoResponse == [success |-> FALSE, status |-> <<>>, lines |-> <<>>, binary |-> <<>>]

\* one call of sendRawCommand and the currentCommand record it creates
\*   pc: "idle" not called; "waiting" at `await this.currentCommand.promise`;
\*       "woken" that promise is resolved and the continuation is queued;
\*       "written" / "writeFailed" current, at `await this.port.write`;
\*       "sent" at `await promise`
NoCmd == [pc |-> "idle", type |-> "NONE", prefix |-> <<>>, timeout |-> 0, timer |-> FALSE,
          lines |-> <<>>, hasBuffer |-> FALSE, bufferLength |-> 0, buffer |-> <<>>,
          binaryOffset |-> 0, waitOn |-> 0, resolves |-> 0, response |-> NoResponse,
          overlapped |-> FALSE]

\* a command is in flight from the moment it becomes current until its promise resolves
InFlight(s, c) == s.cmd[c].pc \in {"written", "writeFailed", "sent"} /\ s.cmd[c].resolves = 0

\* handleUnsolicitedLine: no handler is registered (addUnsolicitedHandler is not
\* called), so the loop over unsolicitedHandlers has nothing to run
handleUnsolicitedLine(s, line) == s

\* cmd.buffer.subarray(2): the buffer is allocated zero-filled with bufferLength
\* bytes, of which the first binaryOffset have been received
BufferSubarray2(cm) ==
    SubSeq(cm.buffer \o [i \in 1..(cm.bufferLength - Len(cm.buffer)) |-> 0], 3, cm.bufferLength)

\* resolveCurrentCommand: clearTimeout, cmd.resolve({...}), currentCommand = undefined;
\* the continuations awaiting the promise are queued
resolveCurrentCommand(s, success, status) ==
    LET c == s.currentCommand IN
    IF c = 0 THEN s
    ELSE LET cm == s.cmd[c]
             resolved == [cm EXCEPT !.timer = FALSE,
                                    !.resolves = cm.resolves + 1,
                                    !.response = IF cm.resolves = 0
                                        THEN [success |-> success, status |-> status,
                                              lines |-> cm.lines,
                                              binary |-> IF cm.hasBuffer
                                                  THEN BufferSubarray2(cm)
                                                  ELSE <<>>]
                                        ELSE cm.response]
         IN  [s EXCEPT !.currentCommand = 0,
                       !.cmd = [d \in Cmds |->
                                  IF d = c THEN resolved
                                  ELSE IF s.cmd[d].pc = "waiting" /\ s.cmd[d].waitOn = c
                                       THEN [s.cmd[d] EXCEPT !.pc = "woken"]
                                       ELSE s.cmd[d]]]

\* cmd.lines.push(line)
PushLine(s, line) ==
    [s EXCEPT !.cmd[s.currentCommand].lines = Append(@, line)]

\* handleLine
handleLine(s0, line) ==
    LET s == [s0 EXCEPT !.dispatched = Append(s0.dispatched, line)]
        c == s.currentCommand
    IN  IF c = 0 THEN handleUnsolicitedLine(s, line)
        ELSE LET cm == s.cmd[c] IN
            IF isSuccessResponse(line, cm.type = "DIAL") THEN resolveCurrentCommand(s, TRUE, line)
            ELSE IF isErrorResponse(line, cm.type = "DIAL") THEN resolveCurrentCommand(s, FALSE, line)
            ELSE CASE cm.type = "PREFIX" ->
                        IF StartsWith(line, cm.prefix) THEN PushLine(s, line)
                        ELSE handleUnsolicitedLine(s, line)
                   [] cm.type = "NO_PREFIX_ALL" ->
                        handleUnsolicitedLine(PushLine(s, line), line)
                   [] cm.type = "NO_PREFIX" ->
                        IF LooksUnsolicited(line) THEN handleUnsolicitedLine(s, line)
                        ELSE PushLine(s, line)
                   [] cm.type = "NUMERIC" ->
                        IF Len(cm.prefix) > 0 /\ StartsWith(line, cm.prefix) THEN PushLine(s, line)
                        ELSE IF StartsWithDigit(line) THEN PushLine(s, line)
                        ELSE handleUnsolicitedLine(s, line)
                   [] cm.type = "MULTILINE" ->
                        IF StartsWith(line, cm.prefix) THEN PushLine(s, line)
                        ELSE IF Len(cm.lines) > 0
                             THEN IF LooksUnsolicited(line) THEN handleUnsolicitedLine(s, line)
                                  ELSE [s EXCEPT !.cmd[c].lines[1] = @ \o <<CR, LF>> \o line]
                             ELSE handleUnsolicitedLine(s, line)
                   [] OTHER -> handleUnsolicitedLine(s, line)

\* the do/while loop of handleSerialData: cut the buffer at each "\r\n" and
\* dispatch the non-empty lines
RECURSIVE dispatchLines(_)
dispatchLines(s) ==
    LET i == IndexOfCRLF(s.buffer) IN
    IF i = 0 THEN s
    ELSE LET line == SubSeq(s.buffer, 1, i - 1)
             s1 == [s EXCEPT !.buffer = SubSeq(s.buffer, i + 2, Len(s.buffer))]
         IN  dispatchLines(IF Len(line) > 0 THEN handleLine(s1, line) ELSE s1)

\* chunkSize = Math.min(data.length, cmd.buffer.length - cmd.binaryOffset)
BinaryChunkSizeWholeEvent(cm, data) == Len(data)
BinaryChunkSize(cm, data) == Min(Len(data), cm.bufferLength - cm.binaryOffset)

\* handleSerialData
handleSerialData(s, data) ==
    LET c == s.currentCommand
        isBinary == c # 0 /\ s.cmd[c].type = "BINARY"
        chunkSize == IF isBinary THEN BinaryChunkSize(s.cmd[c], data) ELSE 0
        rest == SubSeq(data, chunkSize + 1, Len(data))
        s1 == IF isBinary
              THEN [s EXCEPT !.cmd[c].buffer = @ \o SubSeq(data, 1, chunkSize),
                             !.cmd[c].binaryOffset = @ + chunkSize,
                             !.cmd[c].type = IF rest = <<>> THEN @ ELSE "NO_RESPONSE"]
              ELSE s
    IN  IF isBinary /\ rest = <<>> THEN s1
        ELSE dispatchLines([s1 EXCEPT !.buffer = @ \o Utf8Decode(rest),
                                      !.received = @ \o rest])

\* the AtChannel after construction, and what it has done: the lines handed to
\* handleLine and the bytes given to the line parser since the last start, the
\* number of 'data' events handled
InitAtChannel ==
    [paused |-> TRUE, buffer |-> <<>>, currentCommand |-> 0, cmd |-> [c \in Cmds |-> NoCmd],
     dispatched |-> <<>>, received |-> <<>>, events |-> 0]

InitAt ==
    /\ port = [isOpen |-> TRUE, writes |-> <<>>]
    /\ at = InitAtChannel

\* a promise continuation is queued: it runs before any timer or port event
MicrotaskPending == \E c \in Cmds : at.cmd[c].pc \in {"woken", "written", "writeFailed"}

\* timeout ||= 10 * 1000
EffectiveTimeout(timeout) == IF timeout = 0 THEN 10000 ELSE timeout

\* (type == "DEFAULT" || type == "MULTILINE") && prefix == "" -> "NO_RESPONSE"
EffectiveType(type, prefix) ==
    IF type \in {"DEFAULT", "MULTILINE"} /\ prefix = <<>> THEN "NO_RESPONSE" ELSE type

\* while (this.currentCommand) await this.currentCommand.promise
MustWaitNever(s) == FALSE
MustWait(s) == s.currentCommand # 0

\* sendRawCommand from the while loop to `await this.port.write`: wait for the
\* current command, or become current, arm the timer and write the command
sendRawCommandEnterNoTimer(s, p, c) ==
    IF MustWait(s)
    THEN [at |-> [s EXCEPT !.cmd[c].pc = "waiting", !.cmd[c].waitOn = s.currentCommand],
          port |-> p]
    ELSE [at |-> [s EXCEPT !.currentCommand = c,
                           !.cmd[c].pc = IF p.isOpen THEN "written" ELSE "writeFailed",
                           !.cmd[c].lines = <<>>,
                           !.cmd[c].binaryOffset = 0,
                           !.cmd[c].overlapped = \E d \in Cmds : d # c /\ InFlight(s, d)],
          port |-> IF p.isOpen THEN [p EXCEPT !.writes = Append(@, c)] ELSE p]
sendRawCommandEnter(s, p, c) ==
    IF MustWait(s)
    THEN [at |-> [s EXCEPT !.cmd[c].pc = "waiting", !.cmd[c].waitOn = s.currentCommand],
          port |-> p]
    ELSE [at |-> [s EXCEPT !.currentCommand = c,
                           !.cmd[c].pc = IF p.isOpen THEN "written" ELSE "writeFailed",
                           !.cmd[c].timer = TRUE,
                           !.cmd[c].lines = <<>>,
                           !.cmd[c].binaryOffset = 0,
                           !.cmd[c].overlapped = \E d \in Cmds : d # c /\ InFlight(s, d)],
          port |-> IF p.isOpen THEN [p EXCEPT !.writes = Append(@, c)] ELSE p]

\* AtChannel.start
atStart ==
    /\ at.paused
    /\ at' = [at EXCEPT !.paused = FALSE]
    /\ UNCHANGED <<port, ioVars, extVars>>

\* stop(): detach from the port, drop the buffer, complete the current command
stop(s) ==
    IF s.paused THEN s
    ELSE resolveCurrentCommand(
            [s EXCEPT !.paused = TRUE, !.buffer = <<>>, !.received = <<>>, !.dispatched = <<>>],
            FALSE, StrTIMEOUT)

\* AtChannel.stop called by the owner of the channel
atStop ==
    /\ ~at.paused
    /\ at' = stop(at)
    /\ UNCHANGED <<port, ioVars, extVars>>

\* the port closes: 'close' is emitted, handleSerialClose runs when attached
handleSerialClose(s) == stop(s)

atPortClose ==
    /\ port.isOpen /\ ~MicrotaskPending
    /\ port' = [port EXCEPT !.isOpen = FALSE]
    /\ at' = IF at.paused THEN at ELSE handleSerialClose(at)
    /\ UNCHANGED <<ioVars, extVars>>

\* a 'data' event of the port while the channel is attached
atData(data) ==
    /\ port.isOpen /\ ~at.paused /\ ~MicrotaskPending
    /\ at' = [handleSerialData(at, data) EXCEPT !.events = @ + 1]

atPortData(data) ==
    /\ atData(data)
    /\ UNCHANGED <<port, ioVars, extVars>>

\* a call of sendRawCommand(type, cmd, prefix, {timeout, binarySize})
atSend(c, type, prefix, timeout, binarySize) ==
    /\ at.cmd[c].pc = "idle"
    /\ \A d \in Cmds : d < c => at.cmd[d].pc # "idle"
    /\ LET s == [at EXCEPT !.cmd[c].type = EffectiveType(type, prefix),
                           !.cmd[c].prefix = prefix,
                           !.cmd[c].timeout = EffectiveTimeout(timeout),
                           !.cmd[c].hasBuffer = (type = "BINARY"),
                           !.cmd[c].bufferLength = IF type = "BINARY" THEN binarySize + 2 ELSE 0]
           next == sendRawCommandEnter(s, port, c)
       IN  at' = next.at /\ port' = next.port
    /\ UNCHANGED <<ioVars, extVars>>

\* the awaited promise of the previous command is resolved: the loop runs again
atResume(c) ==
    /\ at.cmd[c].pc = "woken"
    /\ LET next == sendRawCommandEnter(at, port, c)
       IN  at' = next.at /\ port' = next.port
    /\ UNCHANGED <<ioVars, extVars>>

\* `await this.port.write` settles: on rejection resolveCurrentCommand(false,
\* "PORT_CLOSED"); then the call awaits its own promise
atWriteDone(c) ==
    /\ at.cmd[c].pc \in {"written", "writeFailed"}
    /\ LET s == [at EXCEPT !.cmd[c].pc = "sent"]
       IN  at' = IF at.cmd[c].pc = "writeFailed"
                 THEN resolveCurrentCommand(s, FALSE, StrPORTCLOSED) ELSE s
    /\ UNCHANGED <<port, ioVars, extVars>>

\* the timer of command c fires: resolveCurrentCommand(false, "TIMEOUT")
atTimeout(c) ==
    /\ at.cmd[c].timer /\ ~MicrotaskPending
    /\ at' = resolveCurrentCommand([at EXCEPT !.cmd[c].timer = FALSE], FALSE, StrTIMEOUT)
    /\ UNCHANGED <<port, ioVars, extVars>>

\* ---- the inputs of SpecAt: whole reply lines, a few kinds of command
CRLF == <<CR, LF>>
\* "+X" and "1"
PrefixX == <<43, 88>>
AtReplyLines == {StrOK, StrERROR, PrefixX}
\* sendCommand(cmd, "+X") with no timeout given, and the sendCommandNoResponse(cmd, 150)
\* of handshake
AtSends == {[type |-> "PREFIX", prefix |-> PrefixX, timeout |-> 0],
            [type |-> "NO_RESPONSE", prefix |-> <<>>, timeout |-> 150]}
\* sendCommandNoPrefix(cmd) and sendCommandMultiline(cmd, "K")
AtByteSends == {[type |-> "NO_PREFIX", prefix |-> <<>>, timeout |-> 0],
                [type |-> "MULTILINE", prefix |-> <<75>>, timeout |-> 0]}

NextAt ==
    \/ atStart
    \/ atStop
    \/ atPortClose
    \/ \E line \in AtReplyLines : at.events < MaxData /\ atPortData(line \o CRLF)
    \/ \E c \in Cmds, k \in AtSends : atSend(c, k.type, k.prefix, k.timeout, 0)
    \/ \E c \in Cmds : atResume(c)
    \/ \E c \in Cmds : atWriteDone(c)
    \/ \E c \in Cmds : atTimeout(c)

\* ---- the inputs of SpecAtBytes: any bytes, cut anywhere
MaxStream == 4
MaxChunk == 2
\* CR, LF, 'K', 'O', and the two bytes C3 A9 of U+00E9
AtBytes == {CR, LF, 75, 79, 195, 169}
AtChunks == UNION {[1..n -> AtBytes] : n \in 1..MaxChunk}

NextAtBytes ==
    \/ atStart
    \/ \E data \in AtChunks : Len(at.received) + Len(data) <= MaxStream /\ atPortData(data)
    \/ \E k \in AtByteSends : atSend(1, k.type, k.prefix, k.timeout, 0)
    \/ atWriteDone(1)
    \/ atTimeout(1)

(***************************************************************************)
(* Binary AT commands: CGSN.readMemoryChunk sends AT+CGSN:A,L through       *)
(* sendCommandBinaryResponse(cmd, L + 1, 1000) and the phone answers with   *)
(* a binary block followed by the status line.                             *)
(***************************************************************************)
\* binarySize of the command: the ACK byte and L = BinSize - 1 data bytes
BinSize == 2
\* the longest data event of the reply
MaxBinChunk == 3
\* the ACK byte of a CGSN reply
BinAck == 161
\* payload bytes: the ACK and bytes that look like a line end
BinBytes == {BinAck, CR, LF}
BinPayloads == [1..BinSize -> BinBytes]
\* what the phone sends in front of the payload: nothing, or CR LF
BinLeads == {<<>>, CRLF}

InitWire == wire = [reply |-> <<>>, lead |-> 0, payload |-> <<>>, pos |-> 0]

\* sendCommandBinaryResponse(cmd, BinSize, 1000)
atSendBinary == atSend(1, "BINARY", <<>>, 1000, BinSize)

\* the phone has the command and composes its reply: lead, payload, CR LF OK CR LF
atPhoneReply(lead, payload) ==
    /\ port.writes = <<1>> /\ wire.reply = <<>>
    /\ wire' = [reply |-> lead \o payload \o CRLF \o StrOK \o CRLF,
                lead |-> Len(lead), payload |-> payload, pos |-> 0]
    /\ UNCHANGED <<atVars, ioVars, bfc, chaos, frame, auxVars>>

\* the next n bytes of the reply arrive in one 'data' event
atBinaryData(n) ==
    /\ wire.pos < Len(wire.reply)
    /\ LET end == Min(wire.pos + n, Len(wire.reply)) IN
       /\ atData(SubSeq(wire.reply, wire.pos + 1, end))
       /\ wire' = [wire EXCEPT !.pos = end]
    /\ UNCHANGED <<port, ioVars, bfc, chaos, frame, auxVars>>

NextAtBinary ==
    \/ atStart
    \/ atSendBinary
    \/ atWriteDone(1)
    \/ \E lead \in BinLeads, payload \in BinPayloads : atPhoneReply(lead, payload)
    \/ \E n \in 1..MaxBinChunk : atBinaryData(n)
    \/ atTimeout(1)

(***************************************************************************)
(* BFC: transport modes, exec calls, receivers, inbound packets.  Inbound  *)
(* data is taken packet by packet, as handleSerialData cuts it; the bytes  *)
(* of a frame are the subject of SpecBfcFrame below.                       *)
(***************************************************************************)
\* exec calls
MaxExecs == 2
\* inbound packets in all
MaxInbound == 3
\* packets cut out of the buffer by one 'data' event
MaxPkts == 2
\* connections made
MaxConnects == 2
\* frames after which the parser of an exec calls resolve (readMemoryChunk: the
\* ACK frame, then data frames until offset == length)
ParserFrames == 2

DEFAULT_CHANNEL_ID == 1

Execs == 1..MaxExecs
\* the keys of frameReceivers: the src of every API call
BfcKeys == {DEFAULT_CHANNEL_ID}
\* the dst of the exec calls (0x06, the dst of readMemoryChunk)
BfcDsts == {6}
\* exec with a parser (readMemoryChunk) and without; auth is on by default
BfcExecKinds == {[dst |-> 6, auth |-> TRUE, parser |-> TRUE],
                 [dst |-> 6, auth |-> TRUE, parser |-> FALSE]}
\* inbound packets: crcBad = the CRC flag is set and checkPacketChecksum fails;
\* body "auth_ok" = payload 43 11
BfcPackets == {[src |-> 6, dst |-> DEFAULT_CHANNEL_ID, ack |-> FALSE, crcBad |-> FALSE, body |-> "auth_ok"],
               [src |-> 6, dst |-> DEFAULT_CHANNEL_ID, ack |-> FALSE, crcBad |-> FALSE, body |-> "data"],
               [src |-> 6, dst |-> DEFAULT_CHANNEL_ID, ack |-> TRUE, crcBad |-> FALSE, body |-> "data"],
               [src |-> 6, dst |-> DEFAULT_CHANNEL_ID, ack |-> TRUE, crcBad |-> TRUE, body |-> "data"]}

\* one call of exec
\*   pc: "idle"; "waiting" in createReceiver at `await frameReceivers[dst].promise`;
\*       "woken" that promise resolved, the continuation is queued; "sent" its
\*       receiver is registered and its frame written; "authDone" the receiver of
\*       its sendAuth resolved, the continuation is queued; "done"; "failed"
NoExec == [pc |-> "idle", dst |-> 0, auth |-> FALSE, parser |-> FALSE, needAuth |-> FALSE,
           phase |-> "none", waitOn |-> 0, error |-> "none", result |-> "none",
           authResult |-> "none", frames |-> <<>>]

\* what the auto ACK did so far: a packet with the ACK flag got no ACK frame
\* (missed), one that also passed the CRC check got none (missedValid), an ACK
\* frame was written for a packet that wanted none (unwanted)
NoAck == [missed |-> FALSE, missedValid |-> FALSE, unwanted |-> FALSE]

\* the BFC object after construction, and what it has done: the frames written
\* by exec (writes), the inbound packets seen (inbound), what the auto ACK did
\* (ack); for each dst whether an auth frame was written (authSent) and an auth
\* accepted (authOk) in this connection
InitBfc ==
    bfc = [mode |-> "NONE",
           authCache |-> [d \in BfcDsts |-> FALSE],
           frameReceivers |-> [k \in BfcKeys |-> 0],
           dataListeners |-> 0,
           exec |-> [e \in Execs |-> NoExec],
           deferred |-> <<>>,
           writes |-> <<>>, inbound |-> 0,
           ack |-> NoAck,
           conn |-> 0, authOk |-> [d \in BfcDsts |-> FALSE],
           authSent |-> [d \in BfcDsts |-> FALSE],
           connPc |-> "idle"]

\* AtChannel.start as called by BFC
start(s) == IF s.paused THEN [s EXCEPT !.paused = FALSE] ELSE s

\* port.off('data', handleSerialDataCallback) / port.on(...): the number of
\* times the BFC handler is subscribed (off removes one subscription)
portOffNothing(n) == n
portOff(n) == IF n > 0 THEN n - 1 ELSE 0

portOn(n) == n + 1

\* setTransportMode: [bfc, at] after the call
setTransportMode(b, a, mode) ==
    IF b.mode = mode THEN [bfc |-> b, at |-> a]
    ELSE LET b1 == [b EXCEPT !.mode = mode] IN
         CASE mode = "NONE" ->
                [bfc |-> [b1 EXCEPT !.dataListeners = portOff(@)], at |-> stop(a)]
           [] mode = "AT" ->
                [bfc |-> [b1 EXCEPT !.dataListeners = portOff(@)], at |-> start(a)]
           [] mode = "BFC" ->
                [bfc |-> [b1 EXCEPT !.dataListeners = portOn(@)], at |-> stop(a)]

\* handleReceiverResponse that resolves the promise whatever the response is
handleReceiverResponseResolveOnly(b, src, key, isError, value) ==
    LET r == b.frameReceivers[key] IN
    IF r = 0 \/ b.exec[r].dst # src THEN b
    ELSE [b EXCEPT
            !.frameReceivers[key] = 0,
            !.authOk = IF ~isError /\ b.exec[r].phase = "auth" /\ value = "auth_ok"
                       THEN [@ EXCEPT ![b.exec[r].dst] = TRUE] ELSE @,
            !.exec = [e \in DOMAIN b.exec |->
                IF e = r
                THEN IF isError THEN [b.exec[e] EXCEPT !.pc = "failed", !.error = value]
                     ELSE IF b.exec[e].phase = "auth"
                          THEN [b.exec[e] EXCEPT !.pc = "authDone", !.authResult = value]
                          ELSE [b.exec[e] EXCEPT !.pc = "done", !.result = "reply"]
                ELSE IF b.exec[e].pc = "waiting" /\ b.exec[e].waitOn = r
                     THEN [b.exec[e] EXCEPT !.pc = "woken"]
                     ELSE b.exec[e]]]

\* handleReceiverResponse(src, dst, response): the receiver registered for dst
\* completes when its src matches; the calls awaiting its promise go on (or
\* fail with the same error when it is rejected)
handleReceiverResponse(b, src, key, isError, value) ==
    LET r == b.frameReceivers[key] IN
    IF r = 0 \/ b.exec[r].dst # src THEN b
    ELSE [b EXCEPT
            !.frameReceivers[key] = 0,
            !.authOk = IF ~isError /\ b.exec[r].phase = "auth" /\ value = "auth_ok"
                       THEN [@ EXCEPT ![b.exec[r].dst] = TRUE] ELSE @,
            !.exec = [e \in DOMAIN b.exec |->
                IF e = r
                THEN IF isError THEN [b.exec[e] EXCEPT !.pc = "failed", !.error = value]
                     ELSE IF b.exec[e].phase = "auth"
                          THEN [b.exec[e] EXCEPT !.pc = "authDone", !.authResult = value]
                          ELSE [b.exec[e] EXCEPT !.pc = "done", !.result = "reply"]
                ELSE IF b.exec[e].pc = "waiting" /\ b.exec[e].waitOn = r
                     THEN IF isError
                          THEN [b.exec[e] EXCEPT !.pc = "failed", !.error = value]
                          ELSE [b.exec[e] EXCEPT !.pc = "woken"]
                     ELSE b.exec[e]]]

\* while (this.frameReceivers[dst]) await ...
ReceiverBusyNever(b, key) == FALSE
ReceiverBusy(b, key) == b.frameReceivers[key] # 0

\* exec from createReceiver to `await promise`: wait for the receiver registered
\* for the key, or register one, arm its timer and send the frame (sendAuth's
\* STATUS frame in phase "auth", the payload frame in phase "payload")
createReceiverAndSend(b, p, e) ==
    LET key == DEFAULT_CHANNEL_ID
        x == b.exec[e]
    IN  IF ReceiverBusy(b, key)
        THEN [b EXCEPT !.exec[e].pc = "waiting", !.exec[e].waitOn = b.frameReceivers[key]]
        ELSE LET b1 == [b EXCEPT !.frameReceivers[key] = e, !.exec[e].pc = "sent"] IN
             IF b.mode # "BFC"
             THEN handleReceiverResponse(b1, x.dst, key, TRUE, "not_connected")
             ELSE IF ~p.isOpen
             THEN handleReceiverResponse(b1, x.dst, key, TRUE, "port_closed")
             ELSE [b1 EXCEPT
                    !.authSent[x.dst] = @ \/ x.phase = "auth",
                    !.writes = Append(@,
                        [exec |-> e, kind |-> x.phase,
                         authOk |-> b.authOk[x.dst], authSent |-> b.authSent[x.dst],
                         authResult |-> x.authResult,
                         overlapped |-> \E d \in DOMAIN b.exec : d # e /\ b.exec[d].pc = "sent"])]

\* handleBfcPacket after the auto ACK: the packet goes to the parser of the
\* receiver found when the packet came in, or completes the receiver
\* registered now
deliverPacket(b, pkt, seq, recv, hasParser) ==
    IF recv # 0 /\ hasParser
    THEN LET b1 == [b EXCEPT !.exec[recv].frames = Append(@, seq)] IN
         IF Len(b1.exec[recv].frames) = ParserFrames
         THEN handleReceiverResponse(b1, pkt.src, pkt.dst, FALSE, "parsed")
         ELSE b1
    ELSE handleReceiverResponse(b, pkt.src, pkt.dst, FALSE, pkt.body)

\* the frame written by sendAck: sendFrame(src, dst, ACK, CRC, [0x15, 1])
sendAck == [type |-> "ACK", crc |-> TRUE, ack |-> FALSE, payload |-> <<21, 1>>]

\* the CRC check of handleBfcPacket comes before the auto ACK
AckWantedAlways(pkt) == pkt.ack
AckWanted(pkt) == pkt.ack /\ ~pkt.crcBad

\* handleBfcPacket up to its first await: CRC check, auto ACK (sendAck writes
\* the ACK frame and the rest of the function is queued), or delivery at once
handleBfcPacket(b, pkt) ==
    LET seq == b.inbound + 1
        recv == b.frameReceivers[pkt.dst]
        hasParser == recv # 0 /\ b.exec[recv].parser /\ b.exec[recv].phase = "payload"
        written == AckWanted(pkt) /\ b.mode = "BFC"
        b0 == [b EXCEPT !.inbound = seq,
                        !.ack.missed = @ \/ (pkt.ack /\ ~written),
                        !.ack.missedValid = @ \/ (pkt.ack /\ ~pkt.crcBad /\ ~written),
                        !.ack.unwanted = @ \/ (written /\ (~pkt.ack \/ pkt.crcBad))]
    IN  IF AckWanted(pkt)
        THEN IF b.mode = "BFC"
             THEN [b0 EXCEPT !.deferred = Append(@, [pkt |-> pkt, seq |-> seq, recv |-> recv,
                                                     hasParser |-> hasParser,
                                                     written |-> sendAck])]
             ELSE b0
        ELSE IF pkt.crcBad
             THEN handleReceiverResponse(b0, pkt.src, pkt.dst, TRUE, "invalid_crc")
             ELSE deliverPacket(b0, pkt, seq, recv, hasParser)

\* the while loop of handleSerialData: one handleBfcPacket call per packet
RECURSIVE handlePackets(_, _)
handlePackets(b, pkts) ==
    IF pkts = <<>> THEN b ELSE handlePackets(handleBfcPacket(b, Head(pkts)), Tail(pkts))

\* BFC.handleSerialClose: every receiver fails, mode NONE
failReceiversNone(b, keys) == b
RECURSIVE failReceivers(_, _)
failReceivers(b, keys) ==
    IF keys = {} THEN b
    ELSE LET k == CHOOSE k \in keys : TRUE
             r == b.frameReceivers[k]
         IN  failReceivers(IF r = 0 THEN b
                           ELSE handleReceiverResponse(b, b.exec[r].dst, k, TRUE, "closed"),
                           keys \ {k})

bfcHandleSerialClose(b, a) == setTransportMode(failReceivers(b, BfcKeys), a, "NONE")

\* a promise continuation of BFC is queued: it runs before any timer or port event
BfcMicrotaskPending ==
    \/ bfc.deferred # <<>>
    \/ \E e \in Execs : bfc.exec[e].pc \in {"woken", "authDone"}

\* connect() as a whole: through mode AT to mode BFC when the phone answers,
\* else mode NONE (it awaits port I/O and timers: the continuations queued
\* before have run when it returns)
bfcConnect(ok) ==
    /\ bfc.mode # "BFC" /\ port.isOpen /\ ~BfcMicrotaskPending
    /\ LET r1 == setTransportMode(bfc, at, "AT")
           r2 == setTransportMode(r1.bfc, r1.at, IF ok THEN "BFC" ELSE "NONE")
       IN  /\ bfc' = IF ok THEN [r2.bfc EXCEPT !.conn = @ + 1,
                                                !.authOk = [d \in BfcDsts |-> FALSE],
                                                !.authSent = [d \in BfcDsts |-> FALSE]]
                        ELSE r2.bfc
           /\ at' = r2.at
    /\ UNCHANGED <<port, ioVars, wire, chaos, frame, auxVars>>

\* disconnect(): after its ping / AT^SQWE=0 exchange, handleSerialClose
bfcDisconnect ==
    /\ bfc.mode = "BFC"
    /\ LET r == bfcHandleSerialClose(bfc, at) IN bfc' = r.bfc /\ at' = r.at
    /\ UNCHANGED <<port, ioVars, wire, chaos, frame, auxVars>>

\* the port closes: the 'close' handlers of the subscribers run
bfcPortClose ==
    /\ port.isOpen /\ ~BfcMicrotaskPending /\ ~MicrotaskPending
    /\ port' = [port EXCEPT !.isOpen = FALSE]
    /\ LET r == IF bfc.dataListeners > 0 THEN bfcHandleSerialClose(bfc, at)
                ELSE [bfc |-> bfc, at |-> at]
       IN  /\ bfc' = r.bfc
           /\ at' = IF r.at.paused THEN r.at ELSE handleSerialClose(r.at)
    /\ UNCHANGED <<ioVars, wire, chaos, frame, auxVars>>

\* a 'data' event in BFC mode holding the packets pkts
bfcData(pkts) ==
    /\ bfc.dataListeners > 0 /\ port.isOpen /\ ~BfcMicrotaskPending
    /\ bfc.inbound + Len(pkts) <= MaxInbound
    /\ bfc' = handlePackets(bfc, pkts)
    /\ UNCHANGED <<atVars, ioVars, wire, chaos, frame, auxVars>>

\* `await this.sendAck` of the oldest queued handleBfcPacket settles
bfcAckDone ==
    /\ bfc.deferred # <<>>
    /\ LET h == Head(bfc.deferred) IN
       bfc' = deliverPacket([bfc EXCEPT !.deferred = Tail(@)], h.pkt, h.seq, h.recv, h.hasParser)
    /\ UNCHANGED <<atVars, ioVars, wire, chaos, frame, auxVars>>

\* a call of exec(DEFAULT_CHANNEL_ID, dst, payload, {parser}), auth on
bfcExec(e, kind) ==
    /\ bfc.exec[e].pc = "idle"
    /\ \A d \in Execs : d < e => bfc.exec[d].pc # "idle"
    /\ LET needAuth == kind.auth /\ ~bfc.authCache[kind.dst]
           b == [bfc EXCEPT !.exec[e].dst = kind.dst, !.exec[e].auth = kind.auth,
                            !.exec[e].parser = kind.parser, !.exec[e].needAuth = needAuth,
                            !.exec[e].phase = IF needAuth THEN "auth" ELSE "payload"]
       IN  bfc' = IF bfc.mode # "BFC"
                  THEN [b EXCEPT !.exec[e].pc = "failed", !.exec[e].error = "not_connected"]
                  ELSE createReceiverAndSend(b, port, e)
    /\ UNCHANGED <<atVars, ioVars, wire, chaos, frame, auxVars>>

\* the awaited promise of the previous receiver is resolved: the loop of
\* createReceiver runs again
bfcResume(e) ==
    /\ bfc.exec[e].pc = "woken"
    /\ bfc' = createReceiverAndSend(bfc, port, e)
    /\ UNCHANGED <<atVars, ioVars, wire, chaos, frame, auxVars>>

\* this.authCache[dst] = await this.sendAuth(...), then the payload
bfcAuthDone(e) ==
    /\ bfc.exec[e].pc = "authDone"
    /\ LET x == bfc.exec[e]
           b == [bfc EXCEPT !.authCache[x.dst] = (x.authResult = "auth_ok"),
                            !.exec[e].phase = "payload"]
       IN  bfc' = createReceiverAndSend(b, port, e)
    /\ UNCHANGED <<atVars, ioVars, wire, chaos, frame, auxVars>>

\* the timer of the receiver of exec e fires
bfcTimeout(e) ==
    /\ bfc.exec[e].pc = "sent" /\ ~BfcMicrotaskPending
    /\ bfc' = handleReceiverResponse(bfc, bfc.exec[e].dst, DEFAULT_CHANNEL_ID, TRUE, "timeout")
    /\ UNCHANGED <<atVars, ioVars, wire, chaos, frame, auxVars>>

BfcEvents == UNION {[1..n -> BfcPackets] : n \in 1..MaxPkts}

\* connect() step by step. connect: the guards, port.update, mode AT, the AT
\* handshake is started
bfcConnectStart ==
    /\ bfc.connPc = "idle" /\ bfc.mode # "BFC" /\ port.isOpen /\ bfc.conn < MaxConnects
    /\ LET r == setTransportMode(bfc, at, "AT") IN
       bfc' = [r.bfc EXCEPT !.connPc = "handshake"] /\ at' = r.at
    /\ UNCHANGED <<port, ioVars, wire, chaos, frame, auxVars>>

\* trySwitchFromAtToBfc after the handshake: "switched" AT^SQWE=1 succeeded
\* (mode BFC, then ping); "refused" bluetooth or AT^SQWE=1 failed (mode NONE,
\* connect throws); "silent" no AT handshake: mode AT again, then findOpenedBfc
\* sets mode BFC and probes (its port.update rejects when the port is closed)
bfcHandshake(outcome) ==
    /\ bfc.connPc = "handshake"
    /\ outcome \in {"switched", "refused"} => ~at.paused /\ port.isOpen
    /\ LET r == CASE outcome = "switched" -> setTransportMode(bfc, at, "BFC")
                  [] outcome = "refused" -> setTransportMode(bfc, at, "NONE")
                  [] outcome = "silent" ->
                        LET r1 == setTransportMode(bfc, at, "AT")
                        IN  setTransportMode(r1.bfc, r1.at, "BFC")
       IN  /\ bfc' = [r.bfc EXCEPT !.connPc =
                        CASE outcome = "switched" -> "ping"
                          [] outcome = "refused" -> "idle"
                          [] outcome = "silent" -> IF port.isOpen THEN "probe" ELSE "idle"]
           /\ at' = r.at
    /\ UNCHANGED <<port, ioVars, wire, chaos, frame, auxVars>>

\* the ping of trySwitchFromAtToBfc / findOpenedBfc is answered (connected) or
\* not (mode NONE, connect throws)
bfcPing(ok) ==
    /\ bfc.connPc \in {"ping", "probe"}
    /\ ok => bfc.mode = "BFC" /\ port.isOpen
    /\ LET r == IF ok THEN [bfc |-> bfc, at |-> at] ELSE setTransportMode(bfc, at, "NONE") IN
       /\ bfc' = IF ok THEN [r.bfc EXCEPT !.connPc = "idle", !.conn = @ + 1,
                                          !.authOk = [d \in BfcDsts |-> FALSE],
                                          !.authSent = [d \in BfcDsts |-> FALSE]]
                  ELSE [r.bfc EXCEPT !.connPc = "idle"]
       /\ at' = r.at
    /\ UNCHANGED <<port, ioVars, wire, chaos, frame, auxVars>>

\* AsyncSerialPort.open
bfcPortOpen ==
    /\ ~port.isOpen
    /\ port' = [port EXCEPT !.isOpen = TRUE]
    /\ UNCHANGED <<at, ioVars, extVars>>

\* replies without flags
BfcAuthPackets == {pkt \in BfcPackets : ~pkt.ack}

\* the mode switches of connect, disconnect and port close, with 'data' events
\* of one packet
NextBfcMode ==
    \/ bfcConnectStart
    \/ \E outcome \in {"switched", "refused", "silent"} : bfcHandshake(outcome)
    \/ \E ok \in BOOLEAN : bfcPing(ok)
    \/ bfcDisconnect
    \/ bfcPortClose
    \/ bfcPortOpen
    \/ \E pkt \in BfcAuthPackets : bfcData(<<pkt>>)

\* calls of exec, also while others are pending, over several connections:
\* replies of one packet per 'data' event
NextBfcAuth ==
    \/ bfc.conn < MaxConnects /\ bfcConnect(TRUE)
    \/ bfcDisconnect
    \/ bfcPortClose
    \/ \E pkt \in BfcAuthPackets : bfcData(<<pkt>>)
    \/ \E e \in Execs, kind \in BfcExecKinds : bfcExec(e, kind)
    \/ \E e \in Execs : bfcResume(e)
    \/ \E e \in Execs : bfcAuthDone(e)
    \/ \E e \in Execs : bfcTimeout(e)

\* one connection, one call of exec at a time: replies of several packets per
\* 'data' event, with and without the ACK flag
NextBfc ==
    \/ \E ok \in BOOLEAN : bfc.conn = 0 /\ bfcConnect(ok)
    \/ bfcDisconnect
    \/ bfcPortClose
    \/ \E pkts \in BfcEvents : bfcData(pkts)
    \/ bfcAckDone
    \/ \E e \in Execs, kind \in BfcExecKinds :
            (\A d \in Execs : bfc.exec[d].pc \in {"idle", "done", "failed"}) /\ bfcExec(e, kind)
    \/ \E e \in Execs : bfcAuthDone(e)
    \/ \E e \in Execs : bfcTimeout(e)

\* ---------------------------------------------------------------------------
\* BFC frames, byte by byte (BFC.ts sendFrame, handleSerialData, handleBfcPacket)

\* payload bytes of a frame
MaxPayload == 2
\* bytes of one 'data' event (or the whole frame at once)
MaxFeed == 3

\* a ^ b for 16-bit values
Xor(a, b) ==
    LET x(w) == (((a \div w) + (b \div w)) % 2) * w IN
    IF a = 0 THEN b
    ELSE IF b = 0 THEN a
    ELSE x(1) + x(2) + x(4) + x(8) + x(16) + x(32) + x(64) + x(128) + x(256) + x(512)
            + x(1024) + x(2048) + x(4096) + x(8192) + x(16384) + x(32768)

\* CRC-16, polynomial 0x1021, initial value 0, no reflection, no final XOR:
\* one byte step (the eight shifts of the bitwise form, folded)
crc16Byte(crc, byte) ==
    LET t == Xor(crc \div 256, byte)
        x == Xor(t, t \div 16)
    IN  Xor(Xor(Xor((crc * 256) % 65536, (x * 4096) % 65536), x * 32), x)

\* crc16(buffer, 0, len): over the first len bytes
RECURSIVE crc16(_, _)
crc16(buffer, len) ==
    IF len = 0 THEN 0 ELSE crc16Byte(crc16(buffer, len - 1), buffer[len])

BfcFrameFlagsACK == 16
BfcFrameFlagsCRC == 32
\* flags & BfcFrameFlags.CRC
HasCrc(flags) == (flags \div BfcFrameFlagsCRC) % 2 = 1

\* pkt[0] ^ pkt[1] ^ pkt[2] ^ pkt[3] ^ pkt[4]
headerChecksumNoFlags(p) == Xor(Xor(Xor(p[1], p[2]), p[3]), p[4])
headerChecksum(p) == Xor(Xor(Xor(Xor(p[1], p[2]), p[3]), p[4]), p[5])

\* the bytes sendFrame hands to port.write
sendFrame(src, dst, frameType, frameFlags, payload) ==
    LET hdr == <<dst, src, Len(payload) \div 256, Len(payload) % 256, frameType + frameFlags>>
        \* frameType | frameFlags is a sum: the types are below 16, the flags above
        pkt == hdr \o <<headerChecksum(hdr)>> \o payload
        crc == crc16(pkt, Len(payload) + 6)
    IN  IF HasCrc(frameFlags) THEN pkt \o <<crc \div 256, crc % 256>> ELSE pkt

\* findPacketStartInBuffer from offset i: the offset of the first valid header,
\* -1 for undefined
RECURSIVE findPacketStartInBuffer(_, _)
findPacketStartInBuffer(buffer, i) ==
    IF Len(buffer) - i < 6 THEN -1
    ELSE IF Xor(Xor(Xor(Xor(buffer[i + 1], buffer[i + 2]), buffer[i + 3]), buffer[i + 4]),
                buffer[i + 5]) = buffer[i + 6]
         THEN i
         ELSE findPacketStartInBuffer(buffer, i + 1)

calcTotalPacketSize(pkt) ==
    pkt[3] * 256 + pkt[4] + 6 + (IF HasCrc(pkt[5]) THEN 2 ELSE 0)

checkPacketChecksum(pkt) ==
    LET payloadLen == pkt[3] * 256 + pkt[4] IN
    pkt[7 + payloadLen] * 256 + pkt[8 + payloadLen] = crc16(pkt, payloadLen + 6)

\* handleBfcPacket up to its CRC check: the fields of the packet, and whether
\* the CRC check lets it through
decodeBfcPacket(pkt) ==
    LET payloadLen == pkt[3] * 256 + pkt[4]
        frameFlags == (pkt[5] \div 16) * 16
    IN  [dst |-> pkt[1], src |-> pkt[2], type |-> pkt[5] % 16, flags |-> frameFlags,
         payload |-> SubSeq(pkt, 7, 6 + payloadLen),
         crcOk |-> ~(HasCrc(frameFlags) /\ ~checkPacketChecksum(pkt))]

\* the while loop of BFC.handleSerialData on the receive buffer
RECURSIVE cutPackets(_, _)
cutPackets(buffer, pkts) ==
    IF Len(buffer) < 6 THEN [buffer |-> buffer, pkts |-> pkts]
    ELSE LET pktStart == findPacketStartInBuffer(buffer, 0) IN
         IF pktStart = -1
         THEN cutPackets(SubSeq(buffer, Len(buffer) - 4, Len(buffer)), pkts)
         ELSE LET b == SubSeq(buffer, pktStart + 1, Len(buffer))
                  pktLen == calcTotalPacketSize(b)
              IN  IF Len(b) < pktLen THEN [buffer |-> b, pkts |-> pkts]
                  ELSE cutPackets(SubSeq(b, pktLen + 1, Len(b)),
                                  Append(pkts, decodeBfcPacket(SubSeq(b, 1, pktLen))))

InitFrame ==
    frame = [pc |-> "idle", given |-> <<>>, bytes |-> <<>>, fed |-> 0, buffer |-> <<>>,
             pkts |-> <<>>]

\* sendFrame(src, dst, frameType, frameFlags, payload) in mode BFC
frameSend(src, dst, frameType, frameFlags, payload) ==
    /\ frame.pc = "idle"
    /\ frame' = [frame EXCEPT !.pc = "sent",
                              !.given = [dst |-> dst, src |-> src, type |-> frameType,
                                         flags |-> frameFlags, payload |-> payload],
                              !.bytes = sendFrame(src, dst, frameType, frameFlags, payload)]
    /\ UNCHANGED <<atVars, ioVars, wire, bfc, chaos, auxVars>>

\* a 'data' event with the next n bytes of the frame
frameData(n) ==
    /\ frame.pc = "sent" /\ frame.fed < Len(frame.bytes)
    /\ LET upto == IF frame.fed + n > Len(frame.bytes) THEN Len(frame.bytes) ELSE frame.fed + n
           r == cutPackets(frame.buffer \o SubSeq(frame.bytes, frame.fed + 1, upto), frame.pkts)
       IN  frame' = [frame EXCEPT !.fed = upto, !.buffer = r.buffer, !.pkts = r.pkts]
    /\ UNCHANGED <<atVars, ioVars, wire, bfc, chaos, auxVars>>

NextBfcFrame ==
    \* frame types SINGLE, ACK, STATUS; flags NONE, ACK, CRC, ACK | CRC
    \/ \E src, dst \in {DEFAULT_CHANNEL_ID, 6, 255}, t \in {0, 2, 4},
          f \in {0, BfcFrameFlagsACK, BfcFrameFlagsCRC, BfcFrameFlagsACK + BfcFrameFlagsCRC},
          payload \in UNION {[1..n -> {21, 255}] : n \in 0..MaxPayload} :
            frameSend(src, dst, t, f, payload)
    \/ \E n \in 1..MaxFeed : frameData(n)
    \/ frameData(MaxPayload + 8)

\* ---------------------------------------------------------------------------
\* ChaosLoader: the heartbeat timer and the request/response transactions

\* API calls in one behaviour
MaxCalls == 2
\* pages of one readMemory / writeMemory
MaxPages == 2
\* pings of the recovery loop (16 in the code)
MaxPingTries == 2
\* timer ticks counted
MaxBeats == 2

InitChaos ==
    chaos = [op |-> "none", pc |-> "idle", txn |-> "none", heartbeatTimer |-> FALSE,
             timers |-> 0, beats |-> 0, hit |-> FALSE, pages |-> 0, tries |-> 0, calls |-> 0]

\* timers counts the live setInterval timers, heartbeatTimer is the field
startHeartbeatTimer(c) ==
    IF ~c.heartbeatTimer THEN [c EXCEPT !.heartbeatTimer = TRUE, !.timers = @ + 1] ELSE c

stopHeartbeatTimer(c) ==
    IF c.heartbeatTimer THEN [c EXCEPT !.heartbeatTimer = FALSE, !.timers = @ - 1] ELSE c

\* the call returns or throws
chaosReturn(c) ==
    [c EXCEPT !.op = "none", !.pc = "idle", !.txn = "none", !.pages = 0, !.tries = 0]

\* readMemoryChunk / writeMemoryChunk write the request of the next page
chaosPageRequest(c) ==
    [c EXCEPT !.txn = IF c.op = "readMemory" THEN "READ_FLASH" ELSE "WRITE_RAM", !.pc = "page"]

\* an API call, up to its first request (or its return): valid is the outcome
\* of the argument checks (for connect: of the boot), n the number of pages
chaosCall(o, valid, n) ==
    /\ chaos.op = "none" /\ chaos.calls < MaxCalls
    /\ LET c == [chaos EXCEPT !.calls = @ + 1, !.op = o]
           c0 == stopHeartbeatTimer(c)
       IN  chaos' =
             CASE o = "connect" -> chaosReturn(IF valid THEN startHeartbeatTimer(c) ELSE c)
               [] o \in {"ping", "unlock"} -> [c0 EXCEPT !.txn = "PING", !.pc = "ping"]
               [] o = "setSpeed" ->
                    IF valid THEN [c0 EXCEPT !.txn = "SET_BAUDRATE", !.pc = "speed1"]
                    ELSE chaosReturn(c0)
               [] o = "testMemory" ->
                    IF valid THEN [c0 EXCEPT !.txn = "TEST", !.pc = "test"]
                    ELSE chaosReturn(c0)
               [] o \in {"readMemory", "writeMemory"} ->
                    IF n = 0 THEN chaosReturn(startHeartbeatTimer(c0))
                    ELSE chaosPageRequest([c0 EXCEPT !.pages = n])
               [] o = "disconnect" -> chaosReturn(c0)
    /\ UNCHANGED <<atVars, ioVars, wire, bfc, frame, auxVars>>

\* the read of the response of the running request ends (r: the expected
\* answer, a timeout, or something else), and the call runs on to its next
\* request or to its end
chaosResponse(r) ==
    /\ chaos.txn # "none"
    /\ LET c0 == [chaos EXCEPT !.txn = "none"]
           c1 == startHeartbeatTimer(c0)
       IN  chaos' =
             CASE chaos.pc = "ping" /\ chaos.op = "ping" -> chaosReturn(c1)
               [] chaos.pc = "ping" /\ chaos.op = "unlock" ->
                    IF r = "ok" THEN [c1 EXCEPT !.txn = "GET_INFO", !.pc = "info"]
                    ELSE chaosReturn(c1)
               [] chaos.pc = "ping" /\ chaos.op \in {"readMemory", "writeMemory"} ->
                    IF r = "ok" THEN chaosPageRequest([stopHeartbeatTimer(c1) EXCEPT !.tries = 0])
                    ELSE IF chaos.tries + 1 < MaxPingTries
                         THEN [c1 EXCEPT !.tries = @ + 1, !.pc = "recover"]
                         ELSE chaosReturn(stopHeartbeatTimer(c1))
               [] chaos.pc = "info" -> chaosReturn(c0)
               [] chaos.pc = "speed1" ->
                    IF r = "ok" THEN [c0 EXCEPT !.txn = "SET_BAUDRATE_ACK", !.pc = "speed2"]
                    ELSE chaosReturn(c0)
               [] chaos.pc = "speed2" ->
                    IF r = "ok" THEN chaosReturn(c1) ELSE chaosReturn(c0)
               [] chaos.pc = "test" -> chaosReturn(c1)
               [] chaos.pc = "page" ->
                    IF r # "ok" THEN [c0 EXCEPT !.pc = "recover", !.tries = 0]
                    ELSE IF chaos.pages = 1 THEN chaosReturn(c1)
                    ELSE chaosPageRequest([c0 EXCEPT !.pages = @ - 1])
    /\ UNCHANGED <<atVars, ioVars, wire, bfc, frame, auxVars>>

\* recovery after a failed page: the awaited heartbeat() writes are done, ping()
\* stops the timer and writes its request
chaosRecover ==
    /\ chaos.pc = "recover"
    /\ chaos' = [stopHeartbeatTimer(chaos) EXCEPT !.txn = "PING", !.pc = "ping"]
    /\ UNCHANGED <<atVars, ioVars, wire, bfc, frame, auxVars>>

\* a live interval timer fires: heartbeat() writes the byte '.'
chaosHeartbeat ==
    /\ chaos.timers > 0 /\ chaos.beats < MaxBeats
    /\ chaos' = [chaos EXCEPT !.beats = @ + 1, !.hit = @ \/ chaos.txn # "none"]
    /\ UNCHANGED <<atVars, ioVars, wire, bfc, frame, auxVars>>

\* ---------------------------------------------------------------------------
\* ChaosLoader.readMemory / writeMemory: the page loop and its page size

READ_PAGE_SIZE_START == 65536
READ_BIG_PAGE_SIZE_MIN == 16384
READ_PAGE_SIZE_MIN == 128
READ_PAGE_SIZE_TRY_COUNT == 5
READ_BIG_PAGE_SIZE_TRY_COUNT == 2
WRITE_PAGE_SIZE_START == 65536
WRITE_BIG_PAGE_SIZE_MIN == 16384
WRITE_PAGE_SIZE_MIN == 128
WRITE_PAGE_SIZE_TRY_COUNT == 5
WRITE_BIG_PAGE_SIZE_TRY_COUNT == 2

\* failed pages of one call
MaxPageFails == 38

\* the constants of the running call: READ_* in readMemory, WRITE_* in writeMemory
ChaosPageConst(op) ==
    IF op = "readMemory"
    THEN [start |-> READ_PAGE_SIZE_START, bigMin |-> READ_BIG_PAGE_SIZE_MIN,
          min |-> READ_PAGE_SIZE_MIN, tries |-> READ_PAGE_SIZE_TRY_COUNT,
          bigTries |-> READ_BIG_PAGE_SIZE_TRY_COUNT]
    ELSE [start |-> WRITE_PAGE_SIZE_START, bigMin |-> WRITE_BIG_PAGE_SIZE_MIN,
          min |-> WRITE_PAGE_SIZE_MIN, tries |-> WRITE_PAGE_SIZE_TRY_COUNT,
          bigTries |-> WRITE_BIG_PAGE_SIZE_TRY_COUNT]

\* streak and fails observe the loop: the failed pages in a row at the current
\* page size, and the failed pages of the call
InitCio ==
    cio = [op |-> "none", pc |-> "idle", size |-> 0, done |-> 0, pageSize |-> 0,
           tryCount |-> 0, chunkSize |-> 0, streak |-> 0, fails |-> 0]

\* the top of the while loop: leave it, or start the next page
chaosLoopTop(c, abort) ==
    IF c.done >= c.size \/ abort
    THEN [c EXCEPT !.pc = "returned", !.chunkSize = 0]
    ELSE [c EXCEPT !.pc = "page",
                   !.chunkSize = IF c.pageSize < c.size - c.done THEN c.pageSize
                                 ELSE c.size - c.done]

\* readMemory(addr, size) / writeMemory(addr, buffer) up to the first page
chaosMemory(o, size, abort) ==
    /\ cio.pc \in {"idle", "returned", "thrown"}
    /\ cio' = chaosLoopTop([op |-> o, pc |-> "loop", size |-> size, done |-> 0,
                            pageSize |-> ChaosPageConst(o).start, tryCount |-> 0,
                            chunkSize |-> 0, streak |-> 0, fails |-> 0], abort)
    /\ UNCHANGED <<atVars, ioVars, wire, bfc, chaos, frame, lateVars, rd, enc, dwd, flash, asp>>

\* the page size and try count after a failed page that the phone survived
chaosPageFailedHalveAlways(c) == [c EXCEPT !.pageSize = c.pageSize \div 2]
chaosPageFailed(c) ==
    LET k == ChaosPageConst(c.op)
        maxTries == IF c.pageSize >= k.bigMin THEN k.bigTries ELSE k.tries
    IN  IF c.size - c.done > k.min
        THEN IF c.tryCount + 1 >= maxTries
             THEN [c EXCEPT !.tryCount = 0,
                            !.pageSize = IF c.pageSize > k.min THEN c.pageSize \div 2
                                         ELSE c.pageSize]
             ELSE [c EXCEPT !.tryCount = c.tryCount + 1]
        ELSE c

\* readMemoryChunk / writeMemoryChunk returns (ok), or fails and the recovery
\* loop finds the phone alive or not; then the loop goes on to its next page
chaosPage(ok, alive, abort) ==
    /\ cio.pc = "page"
    /\ ok \/ cio.fails < MaxPageFails
    /\ cio' =
         IF ok
         THEN chaosLoopTop([cio EXCEPT !.done = @ + cio.chunkSize, !.tryCount = 0,
                                       !.streak = 0], abort)
         ELSE IF ~alive
         THEN [cio EXCEPT !.pc = "thrown", !.fails = @ + 1, !.streak = @ + 1]
         ELSE LET c == chaosPageFailed(cio) IN
              chaosLoopTop([c EXCEPT !.fails = @ + 1,
                                     !.streak = IF c.pageSize # cio.pageSize THEN 0
                                                ELSE @ + 1], abort)
    /\ UNCHANGED <<atVars, ioVars, wire, bfc, chaos, frame, lateVars, rd, enc, dwd, flash, asp>>

NextChaosPages ==
    \/ \E o \in {"readMemory", "writeMemory"}, size \in {0, 128, 129, 33000},
          abort \in BOOLEAN : chaosMemory(o, size, abort)
    \/ \E ok, alive, abort \in BOOLEAN : chaosPage(ok, alive, abort)

\* ---------------------------------------------------------------------------
\* ChaosLoader.readMemory byte by byte: readMemoryChunk and the read cursor

\* bytes of one readMemory
MaxReadSize == 2
RESPONSES_OK == 19279

InitRd ==
    rd = [pc |-> "idle", size |-> 0, bytesRead |-> 0, chunkSize |-> 0, buffer |-> <<>>,
          response |-> <<>>]

\* chk ^= response[i] for the first n bytes
RECURSIVE XorBytes(_, _)
XorBytes(bytes, n) == IF n = 0 THEN 0 ELSE Xor(XorBytes(bytes, n - 1), bytes[n])

\* readMemoryChunk after port.read: whether the page is accepted, and the
\* destination buffer afterwards; an empty response is port.read's undefined
readMemoryChunkNoChk(size, response, buffer, bufferOffset) ==
    IF Len(response) # size + 4 \/ response[size + 1] + response[size + 2] * 256 # RESPONSES_OK
    THEN [ok |-> FALSE, buffer |-> buffer]
    ELSE [ok |-> TRUE,
          buffer |-> [i \in 1..Len(buffer) |->
                        IF i > bufferOffset /\ i <= bufferOffset + size
                        THEN response[i - bufferOffset] ELSE buffer[i]]]
readMemoryChunk(size, response, buffer, bufferOffset) ==
    IF Len(response) = 0 \/ Len(response) # size + 4
    THEN [ok |-> FALSE, buffer |-> buffer]
    ELSE LET status == response[size + 1] + response[size + 2] * 256
             receivedChk == response[size + 3] + response[size + 4] * 256
         IN  IF status # RESPONSES_OK \/ XorBytes(response, size) # receivedChk
             THEN [ok |-> FALSE, buffer |-> buffer]
             ELSE [ok |-> TRUE,
                   buffer |-> [i \in 1..Len(buffer) |->
                                 IF i > bufferOffset /\ i <= bufferOffset + size
                                 THEN response[i - bufferOffset] ELSE buffer[i]]]

\* readMemory(addr, size) up to its first page request: with size below the
\* page size the chunk is all that is left
chaosRead(size) ==
    /\ rd.pc \in {"idle", "returned"}
    /\ rd' = [pc |-> IF size > 0 THEN "page" ELSE "returned", size |-> size, bytesRead |-> 0,
              chunkSize |-> IF READ_PAGE_SIZE_START < size THEN READ_PAGE_SIZE_START ELSE size,
              buffer |-> [i \in 1..size |-> 0], response |-> <<>>]
    /\ UNCHANGED <<atVars, ioVars, wire, bfc, chaos, frame, lateVars, cio, enc, dwd, flash, asp>>

\* port.read(size + 4) ends with the bytes that arrived in time
chaosReadArrive(response) ==
    /\ rd.pc = "page"
    /\ Len(response) <= rd.chunkSize + 4
    /\ rd' = [rd EXCEPT !.pc = "arrived", !.response = response]
    /\ UNCHANGED <<atVars, ioVars, wire, bfc, chaos, frame, lateVars, cio, enc, dwd, flash, asp>>

\* readMemoryChunk goes on with the response: the page is accepted, or fails
\* and is asked for again after the recovery
chaosReadPage ==
    /\ rd.pc = "arrived"
    /\ LET r == readMemoryChunk(rd.chunkSize, rd.response, rd.buffer, rd.bytesRead)
           n == IF r.ok THEN rd.bytesRead + rd.chunkSize ELSE rd.bytesRead
       IN  rd' = [rd EXCEPT !.response = <<>>, !.buffer = r.buffer, !.bytesRead = n,
                            !.pc = IF n < rd.size THEN "page" ELSE "returned",
                            !.chunkSize = IF READ_PAGE_SIZE_START < rd.size - n
                                          THEN READ_PAGE_SIZE_START ELSE rd.size - n]
    /\ UNCHANGED <<atVars, ioVars, wire, bfc, chaos, frame, lateVars, cio, enc, dwd, flash, asp>>

NextChaosRead ==
    \/ \E size \in 0..MaxReadSize : chaosRead(size)
    \/ \E response \in UNION {[1..n -> {0, 75, 79}] : n \in 0..(MaxReadSize + 4)} :
            chaosReadArrive(response)
    \/ chaosReadPage

\* ---------------------------------------------------------------------------
\* DWD frames in AT framing (DWD.ts encapsulateDWDtoAT)

\* frame bodies of every content up to this length
MaxBody == 3
\* frame bodies made of 0x0D only, up to this length
MaxRun == 14
\* frame bodies ending in 0x0D, up to this length
MaxLong == 243

InitEnc == enc = [pc |-> "idle", input |-> <<>>, output |-> <<>>]

\* Buffer.from of a number array keeps the low 8 bits of each number
encapsulateDWDtoAT(input) ==
    LET cr == {i \in 1..Len(input) : input[i] = 13}
        \* positions.push(14 + index), index counted from 0, in the order of the map
        positions == [k \in 1..Cardinality(cr) |->
                        14 + (CHOOSE i \in cr : Cardinality({j \in cr : j < i}) = k - 1) - 1]
        escapedData == [i \in 1..Len(input) |-> IF input[i] = 13 THEN 12 ELSE input[i]]
    IN  <<65, 84, 35>> \o <<Len(positions) % 256>>
            \o [k \in 1..Len(positions) |-> positions[k] % 256] \o escapedData \o <<13>>

\* a call of encapsulateDWDtoAT(input)
dwdEncapsulate(input) ==
    /\ enc' = [pc |-> "done", input |-> input, output |-> encapsulateDWDtoAT(input)]
    /\ UNCHANGED <<atVars, ioVars, wire, bfc, chaos, frame, lateVars, cio, rd, dwd, flash, asp>>

NextDwdEnc ==
    \/ \E input \in UNION {[1..n -> {12, 13, 65}] : n \in 0..MaxBody} : dwdEncapsulate(input)
    \/ \E n \in 0..MaxRun : dwdEncapsulate([i \in 1..n |-> 13])
    \/ \E n \in 1..MaxLong : dwdEncapsulate([i \in 1..n |-> IF i = n THEN 13 ELSE 65])

\* ---------------------------------------------------------------------------
\* DWD.connect: keysets and the handshake

\* calls of connect in one behaviour
MaxDwdConnects == 2
RAND1 == 5500
RAND2 == 5500

\* DWD_KEYS in the order of its properties (the order of for ... in)
DWD_KEYS ==
    <<
       [name |-> "auto", key1 |-> <<0, 0, 0, 0, 0, 0, 0, 0, 0, 0, 0, 0, 0, 0, 0, 0>>,
        key2 |-> 0, key3 |-> <<0, 0, 0, 0, 0, 0, 0, 0, 0, 0, 0, 0, 0, 0, 0, 0>>,
        key4 |-> 0],
       [name |-> "service", key1 |-> <<248, 6, 165, 175, 24, 238, 126, 28, 30, 115, 124, 108, 192, 249, 82, 54>>,
        key2 |-> 31852, key3 |-> <<0, 0, 0, 0, 0, 0, 0, 0, 0, 0, 0, 0, 0, 0, 0, 0>>,
        key4 |-> 0],
       [name |-> "lg", key1 |-> <<112, 196, 105, 218, 44, 57, 157, 177, 30, 38, 171, 97, 240, 178, 82, 4>>,
        key2 |-> 25269, key3 |-> <<0, 0, 0, 0, 0, 0, 0, 0, 0, 0, 0, 0, 0, 0, 0, 0>>,
        key4 |-> 0],
       [name |-> "panasonic", key1 |-> <<163, 249, 164, 156, 93, 227, 125, 146, 37, 17, 149, 141, 86, 206, 81, 242>>,
        key2 |-> 6098, key3 |-> <<0, 0, 0, 0, 0, 0, 0, 0, 0, 0, 0, 0, 0, 0, 0, 0>>,
        key4 |-> 0]
    >>

InitDwd ==
    dwd = [keys |-> 1, pc |-> "idle", auto |-> FALSE, tried |-> <<>>, errors |-> <<>>,
           writes |-> <<>>, resp |-> [kind |-> "none"], keyRotate |-> 0,
           error |-> "none", calls |-> 0]

\* connect1: keyRotate from the word at offset 6 of the response, and the chk1
\* and chk2 it expects at offsets 4 and 8
connect1Expected(keys, w6) ==
    LET keyRotate == (w6 - RAND2) % 16 IN
    [keyRotate |-> keyRotate,
     chk1 |-> Xor(RAND1 * 8 - RAND2, 54311) % 65536,
     chk2 |-> Xor(keys.key1[keyRotate + 1] * 16,
                  Xor(keys.key3[15 - keyRotate + 1] * 8, 32569)) % 65536]

\* connect1 after execCommand returned the 10 byte frame resp: the error it
\* throws, or "none"
connect1CheckNoChk2(keys, resp) ==
    IF connect1Expected(keys, resp.w6).chk1 # resp.w4 THEN "chk1" ELSE "none"
connect1Check(keys, resp) ==
    LET x == connect1Expected(keys, resp.w6) IN
    IF x.chk1 # resp.w4 THEN "chk1"
    ELSE IF x.chk2 # resp.w8 THEN "chk2"
    ELSE "none"

\* the body of connect for a named keyset begins: setV24(true) writes its command
dwdHandshake(d, i) ==
    [d EXCEPT !.keys = i, !.pc = "v24", !.resp = [kind |-> "none"],
              !.writes = Append(@, [cmd |-> "V24", keys |-> DWD_KEYS[i].name, word |-> 0])]

\* the for ... in loop of connect from property i on: the next named keyset is
\* selected and tried, or 'auto' is selected again and the last error thrown
dwdTryFromKeepKeys(d, i) ==
    LET named == {j \in i..Len(DWD_KEYS) : DWD_KEYS[j].name # "auto"} IN
    IF named = {}
    THEN [d EXCEPT !.pc = "thrown", !.auto = FALSE]
    ELSE LET j == CHOOSE k \in named : \A l \in named : k <= l IN
         dwdHandshake([d EXCEPT !.tried = Append(@, DWD_KEYS[j].name)], j)
dwdTryFrom(d, i) ==
    LET named == {j \in i..Len(DWD_KEYS) : DWD_KEYS[j].name # "auto"} IN
    IF named = {}
    THEN [d EXCEPT !.keys = 1, !.pc = "thrown", !.auto = FALSE]
    ELSE LET j == CHOOSE k \in named : \A l \in named : k <= l IN
         dwdHandshake([d EXCEPT !.tried = Append(@, DWD_KEYS[j].name)], j)

\* an attempt throws e: caught by the loop of the 'auto' connect, or thrown
dwdThrow(d, e) ==
    IF d.auto
    THEN dwdTryFrom([d EXCEPT !.error = e, !.errors = Append(@, e)], d.keys + 1)
    ELSE [d EXCEPT !.pc = "thrown", !.error = e]

\* setKeys(name), between two calls of connect (what the last call did is
\* forgotten)
dwdSetKeys(i) ==
    /\ dwd.pc \in {"idle", "connected", "thrown"}
    /\ dwd.keys # i
    /\ dwd' = [dwd EXCEPT !.keys = i, !.pc = "idle", !.tried = <<>>, !.errors = <<>>,
                          !.writes = <<>>, !.resp = [kind |-> "none"], !.error = "none"]
    /\ UNCHANGED <<atVars, ioVars, wire, bfc, chaos, frame, lateVars, cio, rd, enc, flash, asp>>

\* connect() up to the write of the first V24 command
dwdConnect ==
    /\ dwd.pc \in {"idle", "connected", "thrown"}
    /\ dwd.calls < MaxDwdConnects
    /\ LET d == [dwd EXCEPT !.calls = @ + 1, !.tried = <<>>, !.errors = <<>>, !.writes = <<>>,
                            !.error = "none", !.auto = (dwd.keys = 1)]
       IN  dwd' = IF d.auto THEN dwdTryFrom(d, 1) ELSE dwdHandshake(d, d.keys)
    /\ UNCHANGED <<atVars, ioVars, wire, bfc, chaos, frame, lateVars, cio, rd, enc, flash, asp>>

\* setV24 returns (its read of up to 32 bytes is over); connect1 writes its request
dwdV24Done ==
    /\ dwd.pc = "v24"
    /\ LET k == DWD_KEYS[dwd.keys] IN
       dwd' = [dwd EXCEPT !.pc = "c1",
                 !.writes = Append(@, [cmd |-> "CONNECT1", keys |-> k.name,
                     word |-> (Xor(Xor(k.key4, k.key2), RAND1) + RAND2 + 20181) % 65536])]
    /\ UNCHANGED <<atVars, ioVars, wire, bfc, chaos, frame, lateVars, cio, rd, enc, flash, asp>>

\* the read of the Connect-1 response ends: nothing in time, a frame with another
\* opcode, or a CONNECT1_RESP frame with the words w4, w6, w8 at offsets 4, 6, 8;
\* connect1 checks it and connect2 writes its request
dwdConnect1Resp(resp) ==
    /\ dwd.pc = "c1"
    /\ LET k == DWD_KEYS[dwd.keys]
           e == IF resp.kind = "timeout" THEN "timeout"
                ELSE IF resp.kind = "other" THEN "frame"
                ELSE connect1Check(k, resp)
           keyRotate == connect1Expected(k, resp.w6).keyRotate
           d == [dwd EXCEPT !.resp = resp]
       IN  dwd' = IF e # "none" THEN dwdThrow(d, e)
                  ELSE [d EXCEPT !.pc = "c2", !.keyRotate = keyRotate,
                          !.writes = Append(@, [cmd |-> "CONNECT2", keys |-> k.name,
                              word |-> Xor(Xor(k.key1[15 - keyRotate + 1],
                                               k.key3[keyRotate + 1] * 16), 19763) % 65536])]
    /\ UNCHANGED <<atVars, ioVars, wire, bfc, chaos, frame, lateVars, cio, rd, enc, flash, asp>>

\* the read of the Connect-2 response ends
dwdConnect2Resp(ok) ==
    /\ dwd.pc = "c2"
    /\ dwd' = IF ok THEN [dwd EXCEPT !.pc = "connected", !.auto = FALSE]
              ELSE dwdThrow(dwd, "connect2")
    /\ UNCHANGED <<atVars, ioVars, wire, bfc, chaos, frame, lateVars, cio, rd, enc, flash, asp>>

NextDwd ==
    \/ \E i \in 1..Len(DWD_KEYS) : dwdSetKeys(i)
    \/ dwdConnect
    \/ dwdV24Done
    \/ \E kind \in {"timeout", "other"} : dwdConnect1Resp([kind |-> kind, w4 |-> 0, w6 |-> 0, w8 |-> 0])
    \* the phone answers with the chk2 of its own keys p, or with a wrong chk1
    \/ \E p \in 1..Len(DWD_KEYS), w6 \in {RAND2, RAND2 + 8}, chk1ok \in BOOLEAN :
            LET x == connect1Expected(DWD_KEYS[p], w6) IN
            dwdConnect1Resp([kind |-> "frame", w4 |-> IF chk1ok THEN x.chk1 ELSE 0,
                             w6 |-> w6, w8 |-> x.chk2])
    \/ \E ok \in BOOLEAN : dwdConnect2Resp(ok)

\* ---------------------------------------------------------------------------
\* Flash regions (io.ts findFlashRegion, alignToFlashRegions)

\* regions of a list
MaxRegions == 2
\* largest size argument
MaxFlashSize == 4

InitFlash ==
    flash = [pc |-> "idle", addr |-> 0, size |-> 0, regions |-> <<>>, chunks |-> <<>>]

\* the index of the first region that holds addr, 0 for undefined
findFlashRegionExclusive(addr, regions) ==
    LET found == {i \in 1..Len(regions) :
                    addr > regions[i].addr /\ addr < regions[i].addr + regions[i].size}
    IN  IF found = {} THEN 0 ELSE CHOOSE i \in found : \A j \in found : i <= j
findFlashRegion(addr, regions) ==
    LET found == {i \in 1..Len(regions) :
                    addr >= regions[i].addr /\ addr < regions[i].addr + regions[i].size}
    IN  IF found = {} THEN 0 ELSE CHOOSE i \in found : \A j \in found : i <= j

\* Math.min(size, region.size - bufferOffset)
flashBufferSizeToRegionEnd(size, region, bufferOffset) == region.size - bufferOffset
flashBufferSize(size, region, bufferOffset) ==
    IF size < region.size - bufferOffset THEN size ELSE region.size - bufferOffset

\* bufferOffset != 0 || bufferSize != region.size
flashIsPartialByOffset(region, bufferOffset, bufferSize) == bufferOffset # 0
flashIsPartial(region, bufferOffset, bufferSize) ==
    bufferOffset # 0 \/ bufferSize # region.size

\* the while loop of alignToFlashRegions with the chunks pushed so far
RECURSIVE alignToFlashRegions(_, _, _, _)
alignToFlashRegions(addr, size, regions, chunks) ==
    IF size <= 0 THEN [thrown |-> FALSE, chunks |-> chunks]
    ELSE LET i == findFlashRegion(addr, regions) IN
         IF i = 0 THEN [thrown |-> TRUE, chunks |-> <<>>]
         ELSE LET region == regions[i]
                  bufferOffset == addr - region.addr
                  bufferSize == flashBufferSize(size, region, bufferOffset)
              IN  alignToFlashRegions(addr + bufferSize, size - bufferSize, regions,
                      Append(chunks, [addr |-> region.addr, size |-> region.size,
                                      bufferOffset |-> bufferOffset,
                                      bufferSize |-> bufferSize,
                                      isPartial |-> flashIsPartial(region, bufferOffset,
                                                                   bufferSize)]))

\* a call of alignToFlashRegions(addr, size, regions)
flashCall(addr, size, regions) ==
    /\ flash.pc = "idle"
    /\ flash' = [pc |-> "called", addr |-> addr, size |-> size, regions |-> regions,
                 chunks |-> <<>>]
    /\ UNCHANGED <<atVars, ioVars, wire, bfc, chaos, frame, lateVars, cio, rd, enc, dwd, asp>>

\* the call returns its chunks or throws
flashReturn ==
    /\ flash.pc = "called"
    /\ LET r == alignToFlashRegions(flash.addr, flash.size, flash.regions, <<>>) IN
       flash' = [flash EXCEPT !.pc = IF r.thrown THEN "thrown" ELSE "returned",
                              !.chunks = r.chunks]
    /\ UNCHANGED <<atVars, ioVars, wire, bfc, chaos, frame, lateVars, cio, rd, enc, dwd, asp>>

NextFlash ==
    \* regions at the addresses 0..3 of 0..2 bytes, in any order, also overlapping
    \/ /\ flash.pc = "idle"
       /\ \E addr \in 0..4, size \in 0..MaxFlashSize,
             regions \in UNION {[1..n -> [addr : 0..3, size : 0..2]] : n \in 0..MaxRegions} :
               flashCall(addr, size, regions)
    \/ flashReturn

\* ---------------------------------------------------------------------------
\* AsyncSerialPort (src/unnamed/part_011): promise wrappers around a
\* SerialPortStream.  asp.op is the last operation called on the wrapper,
\* asp.atOpen the value of port.isOpen when it was called, asp.settled the
\* state of the promise it returned.
\* ---------------------------------------------------------------------------
MaxReadable == 2
MaxAspRead == 2

AspUnchanged == UNCHANGED <<atVars, ioVars, wire, bfc, chaos, frame, lateVars, cio, rd, enc, dwd, flash>>

InitAsp ==
    asp = [isOpen |-> FALSE, readableLength |-> 0, op |-> "none", atOpen |-> FALSE,
           size |-> 0, bytesRead |-> 0, timer |-> FALSE, settled |-> "none",
           error |-> "none", value |-> "none", forwarded |-> FALSE, cbPending |-> FALSE]

\* the test every operation starts with
portIsNotOpenNever(a) == FALSE

portIsNotOpen(a) == ~a.isOpen

\* a promise settles once: resolve and reject after the first one do nothing
aspSettle(a, how, err, val) ==
    IF a.settled = "pending"
    THEN [a EXCEPT !.settled = how, !.error = err, !.value = val, !.timer = FALSE]
    ELSE a

\* result?.subarray(0, bytesRead), and what readByte makes of it
aspPrefix(a) ==
    IF a.bytesRead = 0 THEN (IF a.op = "readByte" THEN "-1" ELSE "undefined")
    ELSE "buffer"

aspStart(a, o, size) ==
    [a EXCEPT !.op = o, !.atOpen = a.isOpen, !.size = size, !.bytesRead = 0,
              !.timer = FALSE, !.settled = "pending", !.error = "none", !.value = "none",
              !.forwarded = FALSE, !.cbPending = FALSE]

\* open(): nothing on an open port, else port.open with its callback
aspOpen(ok) ==
    /\ asp.settled # "pending"
    /\ asp' = IF asp.isOpen THEN asp ELSE [asp EXCEPT !.isOpen = ok]
    /\ AspUnchanged

\* the port closes (close() or the device goes away): "close" reaches a waiting read
aspClose ==
    /\ asp.isOpen
    /\ asp' = LET a == [asp EXCEPT !.isOpen = FALSE, !.readableLength = 0] IN
              IF a.op \in {"read", "readByte"}
              THEN aspSettle(a, "resolved", "none", aspPrefix(a))
              ELSE a
    /\ AspUnchanged

\* read(size, timeout) and readByte(timeout), which is read(1, timeout)
aspRead(o, size, timeout) ==
    /\ asp.settled # "pending"
    /\ asp.cbPending = FALSE
    /\ o \in {"read", "readByte"}
    /\ o = "readByte" => size = 1
    /\ asp' = LET a == aspStart(asp, o, size) IN
              IF portIsNotOpen(a)
              THEN aspSettle(a, "rejected", "Port is not open", "none")
              ELSE IF a.readableLength >= size
              THEN aspSettle([a EXCEPT !.readableLength = @ - size], "resolved", "none",
                             IF o = "readByte" THEN "byte" ELSE "buffer")
              ELSE [a EXCEPT !.bytesRead = a.readableLength, !.readableLength = 0,
                             !.timer = timeout]
    /\ AspUnchanged

\* write(data)
aspWrite ==
    /\ asp.settled # "pending"
    /\ asp.cbPending = FALSE
    /\ asp' = LET a == aspStart(asp, "write", 0) IN
              IF portIsNotOpen(a)
              THEN aspSettle(a, "rejected", "Port is not open", "none")
              ELSE aspSettle([a EXCEPT !.forwarded = TRUE], "resolved", "none", "void")
    /\ AspUnchanged

\* getSignals / setSignals / update: reject on a closed port, then the call of the
\* stream's method all the same; it throws or takes the callback
aspControl(o, throws) ==
    /\ asp.settled # "pending"
    /\ asp.cbPending = FALSE
    /\ o \in {"getSignals", "setSignals", "update"}
    /\ asp' = LET a == aspStart(asp, o, 0)
                  b == IF portIsNotOpen(a)
                       THEN aspSettle(a, "rejected", "Port is not open", "none")
                       ELSE a
                  c == [b EXCEPT !.forwarded = TRUE] IN
              IF throws
              THEN aspSettle(c, "rejected", "driver", "none")
              ELSE [c EXCEPT !.cbPending = TRUE]
    /\ AspUnchanged

\* the stream calls the callback of get / set / update
aspCallback(err) ==
    /\ asp.cbPending
    /\ asp' = LET a == [asp EXCEPT !.cbPending = FALSE] IN
              IF err THEN aspSettle(a, "rejected", "driver", "none")
              ELSE aspSettle(a, "resolved", "none", "void")
    /\ AspUnchanged

\* n bytes arrive: "readable" reaches a waiting read
aspReadable(n) ==
    /\ asp.isOpen
    /\ asp.readableLength + n <= MaxReadable
    /\ asp' = LET a == [asp EXCEPT !.readableLength = @ + n] IN
              IF a.op \in {"read", "readByte"} /\ a.settled = "pending"
              THEN LET bytesToRead == Min(a.size - a.bytesRead, a.readableLength)
                       b == [a EXCEPT !.readableLength = @ - bytesToRead,
                                      !.bytesRead = @ + bytesToRead] IN
                   IF b.bytesRead = b.size
                   THEN aspSettle(b, "resolved", "none",
                                  IF b.op = "readByte" THEN "byte" ELSE "buffer")
                   ELSE b
              ELSE a
    /\ AspUnchanged

\* the timeout of a waiting read
aspTimeout ==
    /\ asp.timer
    /\ asp' = aspSettle(asp, "resolved", "none", aspPrefix(asp))
    /\ AspUnchanged

\* "error" reaches a waiting read
aspError ==
    /\ asp.op \in {"read", "readByte"}
    /\ asp.settled = "pending"
    /\ asp' = aspSettle(asp, "rejected", "driver", "none")
    /\ AspUnchanged

NextAsp ==
    \/ \E ok \in BOOLEAN : aspOpen(ok)
    \/ aspClose
    \/ \E o \in {"read", "readByte"}, size \in 1..MaxAspRead, timeout \in BOOLEAN :
            aspRead(o, size, timeout)
    \/ aspWrite
    \/ \E o \in {"getSignals", "setSignals", "update"}, throws \in BOOLEAN :
            aspControl(o, throws)
    \/ \E err \in BOOLEAN : aspCallback(err)
    \/ \E n \in 1..MaxReadable : aspReadable(n)
    \/ aspTimeout
    \/ aspError

NextChaos ==
    \/ \E o \in {"connect", "ping", "unlock", "setSpeed", "testMemory", "readMemory",
                 "writeMemory", "disconnect"}, valid \in BOOLEAN, n \in 0..MaxPages :
            chaosCall(o, valid, n)
    \/ \E r \in {"ok", "timeout", "invalid"} : chaosResponse(r)
    \/ chaosRecover
    \/ chaosHeartbeat

\* ---------------------------------------------------------------------------
\* AsyncSerialPort.read byte by byte (src/unnamed/part_011:60-129).  The bytes
\* the port receives are numbered 1, 2, 3, ... in arrival order; ard.buf is the
\* stream's internal buffer (readableLength = Len(ard.buf)), ard.result the
\* bytes the waiting read has copied, ard.returned all bytes the reads that
\* resolved have handed out, in order.
\* ---------------------------------------------------------------------------
MaxRx == 4
MaxArdSize == 2

ArdUnchanged == UNCHANGED <<oldVars, bsl, brd, sym, rxp, bfq>>

InitArd ==
    ard = [isOpen |-> TRUE, ended |-> FALSE, rx |-> 0, buf |-> <<>>, pc |-> "idle",
           size |-> 0, result |-> <<>>, timer |-> FALSE, listeners |-> FALSE,
           returned |-> <<>>, last |-> [how |-> "none", n |-> 0, size |-> 0]]

\* removeListeners() and the promise settled: how is "direct", "full", "timeout",
\* "close", "end" (resolved with value) or "error", "notopen" (rejected)
ardSettle(a, how, value) ==
    [a EXCEPT !.pc = "idle", !.result = <<>>, !.timer = FALSE, !.listeners = FALSE,
              !.returned = @ \o value,
              !.last = [how |-> how, n |-> Len(value), size |-> a.size]]

\* reject(err): the bytes copied into result go with the rejected promise
ardReject(a, how) == ardSettle(a, how, <<>>)

\* onReadable
ardOnReadable(a) ==
    LET bytesToRead == Min(a.size - Len(a.result), Len(a.buf))
        b == [a EXCEPT !.result = @ \o SubSeq(a.buf, 1, bytesToRead),
                       !.buf = SubSeq(a.buf, bytesToRead + 1, Len(a.buf))] IN
    IF bytesToRead = 0 THEN a
    ELSE IF Len(b.result) = b.size THEN ardSettle(b, "full", b.result)
    ELSE b

\* read(size, timeout)
ardRead(size, timeout) ==
    /\ ard.pc = "idle"
    /\ ard' = LET a == [ard EXCEPT !.size = size] IN
              IF ~a.isOpen THEN ardReject(a, "notopen")
              ELSE IF Len(a.buf) >= size
              THEN ardSettle([a EXCEPT !.buf = SubSeq(a.buf, size + 1, Len(a.buf))],
                             "direct", SubSeq(a.buf, 1, size))
              ELSE LET b == IF Len(a.buf) > 0
                            THEN ardOnReadable([a EXCEPT !.pc = "pending"])
                            ELSE [a EXCEPT !.pc = "pending"] IN
                   [b EXCEPT !.listeners = TRUE, !.timer = timeout]
    /\ ArdUnchanged

\* n bytes arrive and the stream emits "readable"
ardData(n) ==
    /\ ard.isOpen
    /\ ~ard.ended
    /\ ard.rx + n <= MaxRx
    /\ ard' = LET a == [ard EXCEPT !.rx = @ + n,
                                   !.buf = @ \o [i \in 1..n |-> ard.rx + i]] IN
              IF a.pc = "pending" THEN ardOnReadable(a) ELSE a
    /\ ArdUnchanged

\* onTimeout
ardTimeout ==
    /\ ard.timer
    /\ ard' = ardSettle(ard, "timeout", ard.result)
    /\ ArdUnchanged

\* the port closes: onClose
ardClose ==
    /\ ard.isOpen
    /\ ard' = LET a == [ard EXCEPT !.isOpen = FALSE] IN
              IF a.pc = "pending" THEN ardSettle(a, "close", a.result) ELSE a
    /\ ArdUnchanged

\* the stream ends: onEnd
ardEnd ==
    /\ ard.isOpen
    /\ ~ard.ended
    /\ ard' = LET a == [ard EXCEPT !.ended = TRUE] IN
              IF a.pc = "pending" THEN ardSettle(a, "end", a.result) ELSE a
    /\ ArdUnchanged

\* the stream emits "error" (a failed write leaves the port open): onError
ardError ==
    /\ ard.isOpen
    /\ ard.pc = "pending"
    /\ ard' = ardReject(ard, "error")
    /\ ArdUnchanged

NextArd ==
    \/ \E size \in 1..MaxArdSize, timeout \in BOOLEAN : ardRead(size, timeout)
    \/ \E n \in 1..2 : ardData(n)
    \/ ardTimeout
    \/ ardClose
    \/ ardEnd
    \/ ardError

\* ---------------------------------------------------------------------------
\* loadBootCode (src/src/BSL.ts:47-122).  bsl.pc is the await the call stands
\* at: "update" (port.update), "loop" (the while test), "scanRead"
\* (readByte(5)), "afterLoop" (setSignals after the loop), "ackRead"
\* (readByte(1000)), then "returned" or "thrown".
\* ---------------------------------------------------------------------------
MaxScans == 3

BslUnchanged == UNCHANGED <<oldVars, ard, brd, sym, rxp, bfq>>

InitBsl ==
    bsl = [pc |-> "idle", aborted |-> FALSE, lastDtr |-> FALSE, cpuType |-> 0, scans |-> 0,
           payloadWritten |-> FALSE, abortedAtCheck |-> FALSE, response |-> 0,
           status |-> "none", success |-> FALSE, error |-> "none"]

\* the status the first byte after the payload decides (-1: no byte within the timeout)
ackStatusDeniedAsUnknown(response) ==
    IF response = -1 THEN "TIMEOUT"
    ELSE IF response = 193 \/ response = 177 THEN "SUCCESS"
    ELSE "UNKNOWN"

ackStatus(response) ==
    IF response = -1 THEN "TIMEOUT"
    ELSE IF response = 193 \/ response = 177 THEN "SUCCESS"
    ELSE IF response = 28 \/ response = 27 THEN "DENIED"
    ELSE "UNKNOWN"

ackError(response) ==
    IF response = -1 THEN "Timeout, ACK not received."
    ELSE IF response = 193 \/ response = 177 THEN "none"
    ELSE IF response = 28 \/ response = 27 THEN "EBL code is denied by bootloader."
    ELSE "Unexpected response"

\* the return statement
bslReturn(b, status, error) ==
    [b EXCEPT !.pc = "returned", !.status = status, !.success = (status = "SUCCESS"),
              !.error = error]

\* loadBootCode(port, code, options) up to await port.update
bslCall(abortedAtCall) ==
    /\ bsl.pc = "idle"
    /\ bsl' = [bsl EXCEPT !.pc = "update", !.aborted = abortedAtCall]
    /\ BslUnchanged

\* port.update done
bslUpdated ==
    /\ bsl.pc = "update"
    /\ bsl' = [bsl EXCEPT !.pc = "loop"]
    /\ BslUnchanged

\* one pass of the loop up to readByte(5): the test of the signal, the ignition
\* pulse when its period has elapsed, write("AT")
bslLoop(ignite) ==
    /\ bsl.pc = "loop"
    /\ bsl.scans < MaxScans \/ bsl.aborted
    /\ bsl' = IF bsl.aborted THEN [bsl EXCEPT !.pc = "afterLoop"]
              ELSE [bsl EXCEPT !.pc = "scanRead", !.scans = @ + 1,
                               !.lastDtr = IF ignite THEN ~@ ELSE @]
    /\ BslUnchanged

\* readByte(5) of the scan returns
bslScanByte(response) ==
    /\ bsl.pc = "scanRead"
    /\ bsl' = IF response # -1 /\ (response = 176 \/ response = 192)
              THEN [bsl EXCEPT !.cpuType = response, !.pc = "afterLoop"]
              ELSE [bsl EXCEPT !.pc = "loop"]
    /\ BslUnchanged

\* setSignals after the loop done: the second test of the signal, the payload
bslAfterLoop ==
    /\ bsl.pc = "afterLoop"
    /\ bsl' = LET b == [bsl EXCEPT !.abortedAtCheck = bsl.aborted] IN
              IF b.aborted THEN bslReturn(b, "ABORTED", "Aborted by user.")
              ELSE [b EXCEPT !.payloadWritten = TRUE, !.pc = "ackRead"]
    /\ BslUnchanged

\* readByte(1000) returns
bslAck(response) ==
    /\ bsl.pc = "ackRead"
    /\ bsl' = bslReturn([bsl EXCEPT !.response = response], ackStatus(response),
                        ackError(response))
    /\ BslUnchanged

\* the caller aborts the signal
bslAbort ==
    /\ bsl.pc \notin {"idle", "returned", "thrown"}
    /\ ~bsl.aborted
    /\ bsl' = [bsl EXCEPT !.aborted = TRUE]
    /\ BslUnchanged

\* a port operation the call awaits rejects
bslPortError ==
    /\ bsl.pc \in {"update", "scanRead", "afterLoop", "ackRead"}
    /\ bsl' = [bsl EXCEPT !.pc = "thrown"]
    /\ BslUnchanged

NextBsl ==
    \/ \E abortedAtCall \in BOOLEAN : bslCall(abortedAtCall)
    \/ bslUpdated
    \/ \E ignite \in BOOLEAN : bslLoop(ignite)
    \/ \E response \in {-1, 65, 176, 192, 193} : bslScanByte(response)
    \/ bslAfterLoop
    \/ \E response \in {-1, 193, 177, 28, 27, 176, 0} : bslAck(response)
    \/ bslAbort
    \/ bslPortError

\* ---------------------------------------------------------------------------
\* BFC.readMemory (src/src/BFC.ts:677-722) and ChaosLoader.readMemory
\* (src/src/ChaosLoader.ts:429-516) with their abort signal.  brd.aborted is
\* signal.aborted, brd.c the locals of the ChaosLoader loop (as in cio),
\* brd.requests the chunk requests sent, brd.result what the call returned:
\* the length of its buffer, canceled, and the cursor of the last onProgress.
\* ---------------------------------------------------------------------------
MaxBrdFails == 3
BFC_READ_CHUNK == 16128

BrdUnchanged == UNCHANGED <<oldVars, ard, bsl, sym, rxp, bfq>>

InitBrd ==
    brd = [loader |-> "none", pc |-> "idle", aborted |-> FALSE, length |-> 0, cursor |-> 0,
           chunkSize |-> 0, i |-> 0, fails |-> 0, requests |-> 0,
           c |-> [op |-> "none", pc |-> "idle", size |-> 0, done |-> 0, pageSize |-> 0,
                  tryCount |-> 0, chunkSize |-> 0, streak |-> 0, fails |-> 0],
           result |-> [bufferLength |-> 0, canceled |-> FALSE, progressCursor |-> 0]]

\* return { buffer, canceled } after the last onProgress: buffer is the
\* Buffer.alloc(length) of the first lines
brdReturn(b, cancel) ==
    [b EXCEPT !.pc = "returned",
              !.result = [bufferLength |-> b.length, canceled |-> cancel,
                          progressCursor |-> b.cursor]]

\* BFC.readMemory: the top of the while loop, up to the first readMemoryChunk
bfcReadLoopTop(b) ==
    IF b.cursor >= b.length THEN brdReturn(b, FALSE)
    ELSE IF b.aborted THEN brdReturn(b, TRUE)
    ELSE [b EXCEPT !.pc = "chunk", !.i = 0, !.requests = @ + 1,
                   !.chunkSize = Min(b.length - b.cursor, BFC_READ_CHUNK)]

\* ChaosLoader.readMemory: the top of the while loop, up to readMemoryChunk
chaosReadLoopTop(b, c) ==
    LET d == chaosLoopTop(c, b.aborted)
        e == [b EXCEPT !.c = d, !.cursor = d.done, !.chunkSize = d.chunkSize] IN
    IF d.pc = "returned" THEN brdReturn(e, d.done < d.size)
    ELSE [e EXCEPT !.pc = "chunk", !.requests = @ + 1]

\* readMemory(address, length, options)
brdCall(loader, length, aborted0) ==
    /\ brd.pc = "idle"
    /\ brd' = LET b == [brd EXCEPT !.loader = loader, !.aborted = aborted0,
                                   !.length = length] IN
              IF loader = "BFC" THEN bfcReadLoopTop(b)
              ELSE chaosReadLoopTop(b, [op |-> "readMemory", pc |-> "loop", size |-> length,
                                        done |-> 0, pageSize |-> READ_PAGE_SIZE_START,
                                        tryCount |-> 0, chunkSize |-> 0, streak |-> 0,
                                        fails |-> 0])
    /\ BrdUnchanged

\* readMemoryChunk ends: BFC tries a chunk three times and throws the third
\* error; ChaosLoader pings after a failed page and throws when the phone is lost
brdChunk(ok, alive) ==
    /\ brd.pc = "chunk"
    /\ ok \/ brd.fails < MaxBrdFails
    /\ brd' =
         IF brd.loader = "BFC"
         THEN IF ok THEN bfcReadLoopTop([brd EXCEPT !.cursor = @ + brd.chunkSize])
              ELSE IF brd.i = 2 THEN [brd EXCEPT !.pc = "thrown", !.fails = @ + 1]
              ELSE [brd EXCEPT !.i = @ + 1, !.requests = @ + 1, !.fails = @ + 1]
         ELSE IF ok
              THEN chaosReadLoopTop(brd, [brd.c EXCEPT !.done = @ + brd.c.chunkSize,
                                                       !.tryCount = 0])
              ELSE IF ~alive THEN [brd EXCEPT !.pc = "thrown", !.fails = @ + 1]
              ELSE chaosReadLoopTop([brd EXCEPT !.fails = @ + 1], chaosPageFailed(brd.c))
    /\ BrdUnchanged

\* the caller aborts the signal while a chunk is awaited
brdAbort ==
    /\ brd.pc = "chunk"
    /\ ~brd.aborted
    /\ brd' = [brd EXCEPT !.aborted = TRUE]
    /\ BrdUnchanged

NextBrd ==
    \/ \E loader \in {"BFC", "ChaosLoader"}, length \in {0, 1, 129, 16128, 16129, 40000, 70000},
          aborted0 \in BOOLEAN : brdCall(loader, length, aborted0)
    \/ \E ok, alive \in BOOLEAN : brdChunk(ok, alive)
    \/ brdAbort

\* ---------------------------------------------------------------------------
\* ioReadMemory and ioWriteMemory (src/src/io.ts:142-235, 237-322) side by
\* side: sym.r and sym.w are the locals of a read and of a write called with the
\* same api, length and options; every outcome of the chunk primitive (returns
\* or throws) is given to both.
\* ---------------------------------------------------------------------------
SymUnchanged == UNCHANGED <<oldVars, ard, bsl, brd, rxp, bfq>>

NoSymRun == [pc |-> "idle", cursor |-> 0, errors |-> 0, retriesCount |-> 0,
             pageSizeErrorsCount |-> 0, pageSize |-> 0, size |-> 0, thrown |-> "none"]

InitSym ==
    sym = [api |-> [pageSize |-> 0, align |-> 1, maxRetries |-> 0,
                    adaptivePageSize |-> NoAdaptive],
           length |-> 0, r |-> NoSymRun, w |-> NoSymRun]

\* the while test and the lines up to the call of api.read / api.write
symLoopTop(length, s) ==
    IF s.cursor < length
    THEN [s EXCEPT !.pc = "chunk", !.size = ChunkSize(length, s.cursor, s.pageSize)]
    ELSE [s EXCEPT !.pc = "returned", !.size = 0]

\* the lines before the loop
symStart(op, length, optPageSize, a) ==
    LET failure == ioValidate(0, length, optPageSize, a) IN
    IF failure # "none" THEN [NoSymRun EXCEPT !.pc = "thrown", !.thrown = failure]
    ELSE symLoopTop(length, [NoSymRun EXCEPT !.pageSize = Min(optPageSize, a.pageSize)])

\* the chunk primitive returns (ok) or throws: the rest of the try block or the
\* catch clause, and the loop up to the next call of the primitive
symChunk(op, a, length, s, ok) ==
    IF s.pc # "chunk" THEN s
    ELSE IF ok
    THEN symLoopTop(length,
            [s EXCEPT !.cursor = @ + s.size, !.retriesCount = 0,
                      !.pageSizeErrorsCount = PageSizeErrorsAfterSuccess(op, @)])
    ELSE LET t == [s EXCEPT !.errors = @ + 1, !.retriesCount = @ + 1] IN
         IF RetriesExhausted(a, t.retriesCount)
         THEN [t EXCEPT !.pc = "thrown", !.thrown = "chunk"]
         ELSE LET next == AdaptPageSize(a, length, t.cursor, t.pageSize,
                                        t.pageSizeErrorsCount)
                  u == [t EXCEPT !.pageSize = next.pageSize,
                                 !.pageSizeErrorsCount = next.pageSizeErrorsCount] IN
              IF next.pageSize = 0 /\ t.pageSize # 0
              THEN [u EXCEPT !.pc = "thrown", !.thrown = "adaptive_zero"]
              ELSE symLoopTop(length, u)

\* ioReadMemory(api, 0, length, options) and ioWriteMemory(api, 0, buffer, options)
symCall(length, optPageSize, a) ==
    /\ sym' = [api |-> a, length |-> length,
               r |-> symStart("read", length, optPageSize, a),
               w |-> symStart("write", length, optPageSize, a)]
    /\ SymUnchanged

\* the pending chunk of both calls ends the same way
symOutcome(ok) ==
    /\ sym.r.pc = "chunk" \/ sym.w.pc = "chunk"
    /\ ok \/ (sym.r.errors < MaxErrors /\ sym.w.errors < MaxErrors)
    /\ sym' = [sym EXCEPT !.r = symChunk("read", sym.api, sym.length, sym.r, ok),
                          !.w = symChunk("write", sym.api, sym.length, sym.w, ok)]
    /\ SymUnchanged

NextSym ==
    \/ /\ sym.r.pc = "idle"
       /\ \E length \in 0..MaxLength, optPageSize \in {DefaultPageSize, 2}, a \in IoApi :
            symCall(length, optPageSize, a)
    \/ \E ok \in BOOLEAN : symOutcome(ok)

\* ---------------------------------------------------------------------------
\* BFC.handleSerialData (src/src/BFC.ts:279-303) fed one byte stream twice:
\* rxp.a and rxp.b are the receive buffer and the packets handed to
\* handleBfcPacket of two BFC objects, rxp.a.fed and rxp.b.fed how many bytes of
\* rxp.stream each has received in its data events so far.
\* ---------------------------------------------------------------------------
MaxStreamLen == 8

RxpUnchanged == UNCHANGED <<oldVars, ard, bsl, brd, sym, bfq>>

InitRxp ==
    rxp = [pc |-> "idle", stream |-> <<>>,
           a |-> [fed |-> 0, buffer |-> <<>>, pkts |-> <<>>],
           b |-> [fed |-> 0, buffer |-> <<>>, pkts |-> <<>>]]

\* handleSerialData(data) on a receiver r
rxpSerialDataDropBuffer(r, data) ==
    LET c == cutPackets(data, r.pkts) IN
    [fed |-> r.fed + Len(data), buffer |-> c.buffer, pkts |-> c.pkts]

rxpSerialData(r, data) ==
    LET c == cutPackets(r.buffer \o data, r.pkts) IN
    [fed |-> r.fed + Len(data), buffer |-> c.buffer, pkts |-> c.pkts]

\* the phone sends the stream
rxpStream(stream) ==
    /\ rxp' = [rxp EXCEPT !.pc = "fed", !.stream = stream]
    /\ RxpUnchanged

\* a data event with the next n bytes for the first receiver
rxpDataA(n) ==
    /\ rxp.pc = "fed"
    /\ rxp.a.fed + n <= Len(rxp.stream)
    /\ rxp' = [rxp EXCEPT !.a = rxpSerialData(rxp.a, SubSeq(rxp.stream, rxp.a.fed + 1,
                                                           rxp.a.fed + n))]
    /\ RxpUnchanged

\* a data event with the next n bytes for the second receiver
rxpDataB(n) ==
    /\ rxp.pc = "fed"
    /\ rxp.b.fed + n <= Len(rxp.stream)
    /\ rxp' = [rxp EXCEPT !.b = rxpSerialData(rxp.b, SubSeq(rxp.stream, rxp.b.fed + 1,
                                                           rxp.b.fed + n))]
    /\ RxpUnchanged

NextRxp ==
    \* bytes 00 and 01 make headers by accident (00 00 00 01 00 01 announces one
    \* payload byte), bytes 00 and 20 headers with the CRC flag and two more bytes
    \/ /\ rxp.pc = "idle"
       /\ \E stream \in [1..MaxStreamLen -> {0, 1}]
                        \cup [1..MaxStreamLen -> {0, BfcFrameFlagsCRC}] :
            rxpStream(stream)
    \/ \E n \in 1..MaxStreamLen : rxpDataA(n)
    \/ \E n \in 1..MaxStreamLen : rxpDataB(n)

(***************************************************************************)
(* BFC: exec calls queued behind the live receiver of one key              *)
(* (BFC.ts createReceiver, handleReceiverResponse, exec)                   *)
(***************************************************************************)
\* exec calls made on the connection
MaxQueued == 3

QueuedExecs == 1..MaxQueued

\* replies that complete a receiver at once: without the ACK flag, or with a
\* CRC that fails
BfqPackets == {pkt \in BfcPackets : ~AckWanted(pkt)}

BfqUnchanged == UNCHANGED <<oldVars, ard, bsl, brd, sym, rxp>>

\* the BFC object after connect() and an accepted auth for dst 6, the port open
InitBfq ==
    bfq = [bfc |-> [mode |-> "BFC",
                    authCache |-> [d \in BfcDsts |-> TRUE],
                    frameReceivers |-> [k \in BfcKeys |-> 0],
                    dataListeners |-> 1,
                    exec |-> [e \in QueuedExecs |-> NoExec],
                    deferred |-> <<>>,
                    writes |-> <<>>, inbound |-> 0,
                    ack |-> NoAck,
                    conn |-> 1, authOk |-> [d \in BfcDsts |-> TRUE],
                    authSent |-> [d \in BfcDsts |-> TRUE],
                    connPc |-> "idle"],
           isOpen |-> TRUE]

\* a continuation of `await this.frameReceivers[dst].promise` is queued: it
\* runs before any timer or port event, and before the caller of the exec
\* that completed is resumed
BfqMicrotaskPending == \E e \in QueuedExecs : bfq.bfc.exec[e].pc = "woken"

\* a call of exec(DEFAULT_CHANNEL_ID, dst, payload, {parser}): the auth is
\* cached, so the call goes to createReceiver at once
bfqExec(e, kind) ==
    /\ bfq.bfc.exec[e].pc = "idle" /\ ~BfqMicrotaskPending
    /\ \A d \in QueuedExecs : d < e => bfq.bfc.exec[d].pc # "idle"
    /\ LET needAuth == kind.auth /\ ~bfq.bfc.authCache[kind.dst]
           b == [bfq.bfc EXCEPT !.exec[e].dst = kind.dst, !.exec[e].auth = kind.auth,
                                !.exec[e].parser = kind.parser, !.exec[e].needAuth = needAuth,
                                !.exec[e].phase = IF needAuth THEN "auth" ELSE "payload"]
       IN  bfq' = [bfq EXCEPT !.bfc =
                    IF bfq.bfc.mode # "BFC"
                    THEN [b EXCEPT !.exec[e].pc = "failed", !.exec[e].error = "not_connected"]
                    ELSE createReceiverAndSend(b, bfq, e)]
    /\ BfqUnchanged

\* the awaited promise of the previous receiver is resolved: the loop of
\* createReceiver runs again
bfqResume(e) ==
    /\ bfq.bfc.exec[e].pc = "woken"
    /\ bfq' = [bfq EXCEPT !.bfc = createReceiverAndSend(bfq.bfc, bfq, e)]
    /\ BfqUnchanged

\* the timer armed by createReceiver for exec e fires
bfqTimeout(e) ==
    /\ bfq.bfc.exec[e].pc = "sent" /\ ~BfqMicrotaskPending
    /\ bfq' = [bfq EXCEPT !.bfc = handleReceiverResponse(bfq.bfc, bfq.bfc.exec[e].dst,
                                                        DEFAULT_CHANNEL_ID, TRUE, "timeout")]
    /\ BfqUnchanged

\* a 'data' event holding one packet
bfqData(pkt) ==
    /\ bfq.bfc.dataListeners > 0 /\ bfq.isOpen /\ ~BfqMicrotaskPending
    /\ bfq.bfc.inbound < MaxInbound
    /\ bfq' = [bfq EXCEPT !.bfc = handleBfcPacket(bfq.bfc, pkt)]
    /\ BfqUnchanged

\* the port closes: handleSerialClose fails every receiver, mode NONE
bfqPortClose ==
    /\ bfq.isOpen /\ ~BfqMicrotaskPending
    /\ bfq' = [bfc |-> [failReceivers(bfq.bfc, BfcKeys) EXCEPT
                            !.mode = "NONE", !.dataListeners = portOff(@)],
               isOpen |-> FALSE]
    /\ BfqUnchanged

NextBfq ==
    \/ \E e \in QueuedExecs, kind \in BfcExecKinds : bfqExec(e, kind)
    \/ \E e \in QueuedExecs : bfqResume(e)
    \/ \E e \in QueuedExecs : bfqTimeout(e)
    \/ \E pkt \in BfqPackets : bfqData(pkt)
    \/ bfqPortClose

Init ==
    /\ InitIo /\ InitAt /\ InitWire /\ InitBfc /\ InitChaos /\ InitFrame /\ InitCio
    /\ InitRd /\ InitEnc /\ InitDwd /\ InitFlash /\ InitAsp
    /\ InitArd /\ InitBsl /\ InitBrd /\ InitSym /\ InitRxp /\ InitBfq

SpecIo == Init /\ [][NextIo]_vars

SpecAt == Init /\ [][NextAt]_vars

\* timers fire and queued promise continuations run
SpecAtLive ==
    /\ SpecAt
    /\ \A c \in Cmds : WF_vars(atTimeout(c)) /\ WF_vars(atResume(c)) /\ WF_vars(atWriteDone(c))

SpecAtBytes == Init /\ [][NextAtBytes]_vars

SpecAtBinary == Init /\ [][NextAtBinary]_vars

SpecBfc == Init /\ [][NextBfc]_vars

SpecBfcAuth == Init /\ [][NextBfcAuth]_vars

SpecBfcMode == Init /\ [][NextBfcMode]_vars

SpecBfcFrame == Init /\ [][NextBfcFrame]_vars

SpecChaos == Init /\ [][NextChaos]_vars

SpecChaosPages == Init /\ [][NextChaosPages]_vars

SpecChaosRead == Init /\ [][NextChaosRead]_vars

SpecDwdEnc == Init /\ [][NextDwdEnc]_vars

SpecDwd == Init /\ [][NextDwd]_vars

SpecFlash == Init /\ [][NextFlash]_vars

SpecAsp == Init /\ [][NextAsp]_vars

SpecArd == Init /\ [][NextArd]_vars

SpecBsl == Init /\ [][NextBsl]_vars

SpecBrd == Init /\ [][NextBrd]_vars

SpecSym == Init /\ [][NextSym]_vars

SpecRxp == Init /\ [][NextRxp]_vars

SpecBfq == Init /\ [][NextBfq]_vars

(***************************************************************************)
(* Properties of the I/O engine (checked under SpecIo)                     *)
(***************************************************************************)
\* the checks before the loop have passed
IoStarted ==
    \/ ioPc \in {"loop", "chunk", "returned"}
    \/ ioPc = "thrown" /\ ioThrown.kind \in {"chunk", "adaptive_zero"}

\* C1: the cursors handed to successive onProgress callbacks of one call never
\* decrease and never exceed total, whatever chunks succeed or fail.
C1_ProgressCursorMonotonic ==
    /\ progress.last <= ioLength
    /\ progress.prev # -1 => progress.prev <= progress.last

C1_Witness ==
    /\ ioPc = "returned" /\ errors > 0
    /\ progress.prev >= 0 /\ progress.last > progress.prev

\* C2: at every point of the loop the cursor is the sum of the sizes of the
\* chunks that succeeded and is <= total; a failed chunk leaves the cursor where
\* it was and the next call is made at the same address; each successful chunk
\* starts where the previous one ended, so they tile [address, address+cursor).
C2_CursorIsSumOfSuccessfulChunks ==
    IoStarted =>
        /\ cursor = io.okBytes
        /\ cursor <= ioLength
        /\ ~io.gap
        /\ ~io.moved
        /\ chunk.pending => chunk.addr = ioAddress + cursor /\ chunk.size <= ioLength - cursor

C2_Witness ==
    /\ ioPc = "chunk" /\ io.lastFailed = chunk.addr
    /\ cursor > 0 /\ io.failures >= 2 /\ ioAddress > 0

\* C3: with an adaptive policy and an initial page size >= smallPageSize, the
\* page size never drops below smallPageSize.
C3_PageSizeNeverBelowSmall ==
    (IoStarted /\ api.adaptivePageSize.enabled
        /\ io.firstPageSize >= api.adaptivePageSize.smallPageSize)
    => pageSize >= api.adaptivePageSize.smallPageSize

C5_MisalignedFailsBeforeAnyChunk ==
    (ioPc # "idle" /\ (Misaligned(ioAddress, api.align) \/ Misaligned(ioLength, api.align)))
    => /\ ioPc = "thrown"
       /\ ioThrown.kind \in {"align_address", "align_length"}
       /\ chunk = NoChunk
       /\ io.inRow = 0 /\ io.okBytes = 0 /\ io.failures = 0
       /\ progress = NoProgress

C5_Witness ==
    /\ ioPc = "thrown" /\ ioOp = "write" /\ api.align = 4
    /\ ~Misaligned(ioAddress, api.align) /\ Misaligned(ioLength, api.align)
    /\ ioThrown.kind = "align_length"

AtStatuses == {StrOK, StrERROR, StrTIMEOUT, StrPORTCLOSED}

\* C7 (SpecAt): at most one command is in flight at any time; a command becomes
\* current, and its text is written, only when no other command is in flight,
\* in every interleaving of sends, replies, timeouts, stop and port close.
C7_OneCommandInFlight ==
    /\ Cardinality({c \in Cmds : InFlight(at, c)}) <= 1
    /\ \A c \in Cmds : ~at.cmd[c].overlapped
    /\ \A c \in Cmds : InFlight(at, c) => at.currentCommand = c
    /\ \A i, j \in 1..Len(port.writes) : i < j => port.writes[i] # port.writes[j]

C7_Witness ==
    /\ at.currentCommand = 2 /\ at.cmd[2].waitOn = 1 /\ at.cmd[2].pc = "sent"
    /\ at.cmd[1].resolves = 1 /\ at.cmd[1].response.status = StrOK
    /\ port.writes = <<1, 2>>

\* C8 as stated (SpecAt): when the port closes while a command is current on a
\* running channel, that command completes with success = false and status
\* PORT_CLOSED.
C8_PortCloseCompletesWithPortClosed ==
    [][(port.isOpen /\ ~port'.isOpen /\ ~at.paused /\ at.currentCommand # 0)
        => /\ at'.cmd[at.currentCommand].resolves = 1
           /\ ~at'.cmd[at.currentCommand].response.success
           /\ at'.cmd[at.currentCommand].response.status = StrPORTCLOSED]_vars

\* C9 (SpecAtLive): every command that is sent completes, and exactly once: by
\* a terminal status line, by its timer (TIMEOUT; the timer is always armed for
\* the current command, with 10 s when no timeout is given) or by stop / close /
\* a failed write; also when queued behind another command or never answered.
C9_EveryCommandCompletesOnce ==
    /\ [](\A c \in Cmds :
            /\ at.cmd[c].resolves <= 1
            /\ at.cmd[c].resolves = 1 =>
                  /\ at.cmd[c].response.status \in AtStatuses
                  /\ at.cmd[c].response.success = (at.cmd[c].response.status = StrOK)
            /\ InFlight(at, c) => at.cmd[c].timer
            /\ at.cmd[c].pc # "idle" =>
                  at.cmd[c].timeout = (IF at.cmd[c].type = "PREFIX" THEN 10000 ELSE 150))
    /\ \A c \in Cmds : (at.cmd[c].pc # "idle") ~> (at.cmd[c].resolves = 1)

C9_Witness ==
    /\ at.cmd[2].resolves = 1 /\ at.cmd[2].waitOn = 1
    /\ at.cmd[2].response.status = StrTIMEOUT /\ at.cmd[2].type = "PREFIX"
    /\ at.cmd[1].resolves = 1 /\ at.events = 0

\* the non-empty lines of a text that end with CRLF, in order
RECURSIVE SplitLines(_)
SplitLines(text) ==
    LET i == IndexOfCRLF(text) IN
    IF i = 0 THEN <<>>
    ELSE (IF i > 1 THEN <<SubSeq(text, 1, i - 1)>> ELSE <<>>)
         \o SplitLines(SubSeq(text, i + 2, Len(text)))

\* C10 as stated (SpecAtBytes): the lines dispatched are the non-empty CRLF-
\* terminated lines of the received byte stream, in order, however the stream is
\* cut into data events.
C10_DispatchIndependentOfChunking ==
    at.dispatched = SplitLines(Utf8Decode(at.received))

LiveReceivers == {e \in Execs : bfc.exec[e].pc = "sent"}

\* C12: at most one receiver is live per destination key: the receiver of a
\* live exec is the one registered in frameReceivers, and no exec wrote its
\* frame while the receiver of another exec was live
C12_OneLiveReceiver ==
    /\ \A e \in LiveReceivers : bfc.frameReceivers[DEFAULT_CHANNEL_ID] = e
    /\ \A i \in 1..Len(bfc.writes) : ~bfc.writes[i].overlapped

\* the second exec waited for the receiver of the first, and wrote its frame
\* after the first was answered
C12_Witness ==
    /\ bfc.exec[1].pc = "done"
    /\ bfc.exec[2].pc = "sent" /\ bfc.exec[2].waitOn = 1
    /\ \E i \in 1..Len(bfc.writes) : bfc.writes[i].exec = 2

\* C13: the parser of a call is invoked with the frames of its reply in the
\* order in which they arrived (frames holds the arrival numbers of the packets
\* handed to the parser, in the order of the parser calls)
C13_ParserSeesArrivalOrder ==
    \A e \in Execs : \A i, j \in 1..Len(bfc.exec[e].frames) :
        i < j => bfc.exec[e].frames[i] < bfc.exec[e].frames[j]

\* C14 as stated: every inbound frame with the ACK flag gets exactly one ACK
\* frame, whatever the result of its CRC check
C14_AckForEveryFlaggedFrame == ~bfc.ack.missed /\ ~bfc.ack.unwanted

\* C14: every inbound frame with the ACK flag that passes the CRC check (or
\* carries no CRC) gets exactly one ACK frame (type ACK, CRC flag, payload
\* 15 01), whether or not a receiver is registered for it; no other inbound
\* frame gets one
C14_AckForEveryValidFlaggedFrame ==
    /\ ~bfc.ack.missedValid /\ ~bfc.ack.unwanted
    /\ \A i \in 1..Len(bfc.deferred) :
         LET f == bfc.deferred[i].written IN
         f.type = "ACK" /\ f.crc /\ f.payload = <<21, 1>>

\* an ACK frame was written for a frame nobody waited for, and a frame with
\* the ACK flag and a failing CRC was dropped without one
C14_Witness ==
    /\ \E i \in 1..Len(bfc.deferred) : bfc.deferred[i].pkt.ack /\ bfc.deferred[i].recv = 0
    /\ bfc.ack.missed

\* the calls of exec that are pending: the receiver live, or queued behind a
\* live receiver
PendingExecs == {e \in Execs : bfc.exec[e].pc \in {"sent", "waiting"}}

C16_OneDataConsumer ==
    /\ bfc.dataListeners <= 1
    /\ (bfc.dataListeners = 1) <=> (bfc.mode = "BFC")
    /\ ~at.paused => bfc.mode = "AT"
    /\ (IF bfc.dataListeners > 0 THEN 1 ELSE 0) + (IF at.paused THEN 0 ELSE 1) <= 1

\* a second connection is up, after the first one was ended
C16_Witness ==
    /\ bfc.conn = 2 /\ bfc.connPc = "idle"
    /\ bfc.mode = "BFC" /\ bfc.dataListeners = 1 /\ at.paused

\* ---------------------------------------------------------------------------
\* BFC authentication

\* C17: in every connection the payload frame of an exec is written only
\* after an auth frame for its destination was written in that connection,
\* and no auth frame is written for a destination whose auth was accepted in
\* that connection
C17_AuthOncePerConnection ==
    \A i \in 1..Len(bfc.writes) :
        LET w == bfc.writes[i] IN
        /\ w.kind = "payload" => w.authSent
        /\ w.kind = "auth" => ~w.authOk

\* C18: an exec whose auth exchange got a reply other than 43 11 fails with
\* the authentication-denied error, and its payload frame is never written
C18_AuthDeniedFailsExec ==
    \A e \in Execs :
        LET x == bfc.exec[e] IN
        (x.needAuth /\ x.authResult \notin {"none", "auth_ok"}) =>
            /\ x.pc = "authDone" \/ (x.pc = "failed" /\ x.error = "auth_denied")
            /\ \A i \in 1..Len(bfc.writes) :
                 ~(bfc.writes[i].exec = e /\ bfc.writes[i].kind = "payload")

\* ---------------------------------------------------------------------------
\* C19: the bytes sendFrame writes carry, as byte 5, the XOR of bytes 0..4 (bit
\* by bit: each bit of byte 5 is the parity of that bit over bytes 0..4) and,
\* when the CRC flag is set, a big-endian trailer equal to crc16 of the 6 + len
\* header and payload bytes; once all of them have gone through
\* handleSerialData, in whatever chunks, exactly one packet has been cut, it
\* has the src, dst, type, flags and payload that were sent, it passed the CRC
\* check and the receive buffer is empty; before that no packet has been cut.
C19_FrameRoundTrip ==
    frame.pc = "sent" =>
        LET b == frame.bytes
            g == frame.given
            n == Len(g.payload)
            bit(v, k) == (v \div (2 ^ k)) % 2
        IN  /\ \A k \in 0..7 :
                bit(b[6], k) = (bit(b[1], k) + bit(b[2], k) + bit(b[3], k) + bit(b[4], k)
                                    + bit(b[5], k)) % 2
            /\ b[1] = g.dst /\ b[2] = g.src /\ b[3] * 256 + b[4] = n
            /\ SubSeq(b, 7, 6 + n) = g.payload
            /\ IF HasCrc(g.flags)
               THEN Len(b) = n + 8 /\ b[n + 7] * 256 + b[n + 8] = crc16(SubSeq(b, 1, n + 6), n + 6)
               ELSE Len(b) = n + 6
            /\ frame.fed < Len(b) => frame.pkts = <<>>
            /\ frame.fed = Len(b) =>
                /\ frame.buffer = <<>>
                /\ frame.pkts = <<[dst |-> g.dst, src |-> g.src, type |-> g.type,
                                   flags |-> g.flags, payload |-> g.payload, crcOk |-> TRUE]>>

\* a frame with both flags and a full payload has come back out of the parser
C19_Witness ==
    /\ frame.pc = "sent" /\ frame.fed = Len(frame.bytes)
    /\ frame.given.flags = BfcFrameFlagsACK + BfcFrameFlagsCRC
    /\ frame.given.payload = [i \in 1..MaxPayload |-> IF i = 1 THEN 255 ELSE 21]
    /\ Len(frame.pkts) = 1 /\ frame.pkts[1].crcOk

\* ---------------------------------------------------------------------------
\* C20: no heartbeat timer is armed while a request of ChaosLoader (PING,
\* SET_BAUDRATE, GET_INFO, TEST, page read, page write) is waiting for its
\* response, so the timer writes no heartbeat byte inside such an exchange, and
\* at most one heartbeat timer is alive at any time.
C20_NoHeartbeatInTransaction ==
    /\ chaos.txn # "none" => chaos.timers = 0
    /\ ~chaos.hit
    /\ chaos.timers <= 1

\* ---------------------------------------------------------------------------
\* C21: in ChaosLoader.readMemory and writeMemory the page size starts at
\* 64 KiB, changes only by halving, is halved only by a failed page that is at
\* least the 2nd failed page in a row at a page size >= 16 KiB, or the 5th in a
\* row at a page size < 16 KiB (a successful page ends the row), and is never
\* below 128 bytes.
C21_PageSizeHalving ==
    [][/\ (cio.pc \in {"idle", "returned", "thrown"} /\ cio' # cio) => cio'.pageSize = 65536
       /\ cio'.op # "none" => cio'.pageSize >= 128
       /\ (cio.pc = "page" /\ cio'.pageSize # cio.pageSize) =>
            /\ cio'.pageSize * 2 = cio.pageSize
            /\ cio'.fails = cio.fails + 1
            /\ cio.streak + 1 >= (IF cio.pageSize >= 16384 THEN 2 ELSE 5)]_vars

\* a write has been halved all the way down to the floor, and failed again there
C21_Witness ==
    /\ cio.op = "writeMemory" /\ cio.pc = "page"
    /\ cio.pageSize = 128 /\ cio.streak >= 1 /\ cio.done > 0

\* ---------------------------------------------------------------------------
\* C22: a page read of ChaosLoader.readMemory is accepted only if exactly
\* size + 4 bytes arrived, the two bytes after the data are 4F 4B (status
\* 0x4B4F, little endian) and the 16-bit value after them equals the XOR of the
\* data bytes (bit by bit: the low byte carries the parity of each bit, the high
\* byte is 0); then the data is in the buffer at the cursor and the cursor
\* advances by size. In every other case the buffer and the cursor stay as
\* they were and the page is asked for again.
C22_PageAcceptedOnlyIfValid ==
    [][(rd.pc = "arrived" /\ rd' # rd) =>
        LET r == rd.response
            n == rd.chunkSize
            bit(v, k) == (v \div (2 ^ k)) % 2
            RECURSIVE parity(_, _)
            parity(i, k) == IF i = 0 THEN 0 ELSE (parity(i - 1, k) + bit(r[i], k)) % 2
            valid == /\ Len(r) = n + 4
                     /\ r[n + 1] = 79 /\ r[n + 2] = 75
                     /\ r[n + 4] = 0
                     /\ \A k \in 0..7 : bit(r[n + 3], k) = parity(n, k)
        IN  IF valid
            THEN /\ rd'.bytesRead = rd.bytesRead + n
                 /\ SubSeq(rd'.buffer, rd.bytesRead + 1, rd.bytesRead + n) = SubSeq(r, 1, n)
                 /\ Len(rd'.buffer) = rd.size
            ELSE /\ rd'.bytesRead = rd.bytesRead /\ rd'.buffer = rd.buffer
                 /\ rd'.pc = "page" /\ rd'.chunkSize = n]_vars

\* a page with a non-zero checksum was accepted and is in the buffer
C22_Witness ==
    /\ rd.pc = "returned" /\ rd.size = MaxReadSize /\ rd.bytesRead = MaxReadSize
    /\ rd.buffer = [i \in 1..MaxReadSize |-> IF i = 1 THEN 75 ELSE 0]

\* ---------------------------------------------------------------------------
\* C23: the output of encapsulateDWDtoAT contains the byte 0x0D at its last
\* offset and nowhere else, whatever the number and the places of the 0x0D
\* bytes in the frame body.
C23_CrOnlyInTrailer ==
    enc.pc = "done" =>
        /\ enc.output[Len(enc.output)] = 13
        /\ \A i \in 1..(Len(enc.output) - 1) : enc.output[i] # 13

\* C24: the output of encapsulateDWDtoAT(B) is 'AT#', a count byte equal to the
\* number of 0x0D bytes in B, one position byte 14 + i for each index i with
\* B[i] = 0x0D in ascending order, B with each 0x0D replaced by 0x0C, and a
\* final 0x0D; putting 0x0D back at the listed positions minus 14 of the
\* escaped body gives B.
C24_EncapsulationInvertible ==
    enc.pc = "done" =>
        LET B == enc.input
            o == enc.output
            idx == {i \in 0..(Len(B) - 1) : B[i + 1] = 13}
            n == Cardinality(idx)
            listed == {o[4 + k] - 14 : k \in 1..n}
        IN  /\ Len(o) = 3 + 1 + n + Len(B) + 1
            /\ SubSeq(o, 1, 3) = <<65, 84, 35>>
            /\ o[4] = n
            /\ \A k \in 1..n : o[4 + k] - 14 \in idx
            /\ \A k \in 1..(n - 1) : o[4 + k] < o[4 + k + 1]
            /\ \A i \in 1..Len(B) : o[4 + n + i] = IF B[i] = 13 THEN 12 ELSE B[i]
            /\ o[Len(o)] = 13
            /\ [i \in 1..Len(B) |-> IF (i - 1) \in listed THEN 13 ELSE o[4 + n + i]] = B

\* ---------------------------------------------------------------------------
\* C25: a connect with the keyset 'auto' tries service, lg, panasonic in this
\* order, each with a handshake of its own that starts with the V24 command and
\* Connect-1; it goes to the next keyset only after the attempt before it
\* failed, ends connected at the first keyset whose handshake succeeds and
\* keeps that keyset selected; when all three failed, 'auto' is selected again
\* and the error thrown is the error of the panasonic attempt.
C25_AutoTriesInOrder ==
    dwd.tried # <<>> =>
        LET order == <<"service", "lg", "panasonic">>
            n == Len(dwd.tried)
            selected == DWD_KEYS[dwd.keys].name
            cmdsOf(k) == LET w == SelectSeq(dwd.writes, LAMBDA x : x.keys = k)
                         IN  [i \in 1..Len(w) |-> w[i].cmd]
            handshake == <<"V24", "CONNECT1", "CONNECT2">>
        IN  /\ n <= 3 /\ dwd.tried = SubSeq(order, 1, n)
            /\ \A i, j \in 1..Len(dwd.writes) :
                 (i < j /\ dwd.writes[i].keys # dwd.writes[j].keys) =>
                    \E a, b \in 1..n : a < b /\ dwd.tried[a] = dwd.writes[i].keys
                                             /\ dwd.tried[b] = dwd.writes[j].keys
            /\ \A a \in 1..n :
                 LET c == cmdsOf(dwd.tried[a]) IN
                 /\ Len(c) \in 1..3 /\ c = SubSeq(handshake, 1, Len(c))
                 /\ a < n => Len(c) >= 2
            /\ dwd.pc \in {"v24", "c1", "c2", "connected"} =>
                 /\ selected = dwd.tried[n] /\ Len(dwd.errors) = n - 1
            /\ dwd.pc = "connected" => cmdsOf(dwd.tried[n]) = handshake
            /\ dwd.pc = "thrown" =>
                 /\ n = 3 /\ selected = "auto"
                 /\ Len(dwd.errors) = 3 /\ dwd.error = dwd.errors[3]
            /\ dwd.pc \in {"v24", "c1", "c2", "connected", "thrown"}

\* service failed on chk2, lg went through both handshakes and stays selected
C25_Witness ==
    /\ dwd.pc = "connected" /\ dwd.tried = <<"service", "lg">>
    /\ dwd.errors = <<"chk2">> /\ DWD_KEYS[dwd.keys].name = "lg"

\* C26: in a connect with a named keyset the V24 command is written first,
\* then Connect-1, then Connect-2, all with the selected keys; Connect-2 is
\* written only after a Connect-1 response with the expected opcode, chk1 and
\* chk2; after a response whose chk1 matches while its chk2 is not the chk2 of
\* the selected keys, connect has thrown and Connect-2 was not written.
C26_Connect2OnlyAfterChecks ==
    (dwd.tried = <<>> /\ dwd.pc # "idle") =>
        LET cmds == [i \in 1..Len(dwd.writes) |-> dwd.writes[i].cmd]
            sel == DWD_KEYS[dwd.keys]
            r == dwd.resp
            x == connect1Expected(sel, r.w6)
        IN  /\ Len(cmds) \in 1..3 /\ cmds = SubSeq(<<"V24", "CONNECT1", "CONNECT2">>, 1, Len(cmds))
            /\ \A i \in 1..Len(dwd.writes) : dwd.writes[i].keys = sel.name
            /\ dwd.pc = "v24" => Len(cmds) = 1
            /\ dwd.pc = "c1" => Len(cmds) = 2
            /\ dwd.pc \in {"c2", "connected"} => Len(cmds) = 3
            /\ Len(cmds) = 3 => r.kind = "frame" /\ r.w4 = x.chk1 /\ r.w8 = x.chk2
            /\ (r.kind = "frame" /\ r.w4 = x.chk1 /\ r.w8 # x.chk2) =>
                 dwd.pc = "thrown" /\ Len(cmds) = 2 /\ dwd.error = "chk2"

\* the service keys are selected and the phone answered Connect-1 with the
\* right chk1 and the chk2 of the lg keys
C26_Witness ==
    /\ dwd.tried = <<>> /\ DWD_KEYS[dwd.keys].name = "service"
    /\ dwd.pc = "thrown" /\ dwd.error = "chk2"
    /\ dwd.resp.kind = "frame" /\ dwd.resp.w8 = connect1Expected(DWD_KEYS[3], dwd.resp.w6).chk2

\* ---------------------------------------------------------------------------
\* C27: when alignToFlashRegions(addr, size, regions) returns for size > 0, the
\* bufferSize values of its chunks sum to size and the ranges
\* [chunk.addr + bufferOffset, chunk.addr + bufferOffset + bufferSize) follow
\* each other from addr to addr + size: the first starts at addr, each next one
\* starts where the one before ends, none is empty, the last ends at
\* addr + size.
C27_ChunksTileRange ==
    (flash.pc = "returned" /\ flash.size > 0) =>
        LET c == flash.chunks
            n == Len(c)
            from(i) == c[i].addr + c[i].bufferOffset
            RECURSIVE sum(_)
            sum(i) == IF i = 0 THEN 0 ELSE sum(i - 1) + c[i].bufferSize
        IN  /\ n >= 1 /\ sum(n) = flash.size
            /\ from(1) = flash.addr
            /\ \A i \in 1..n : c[i].bufferSize > 0
            /\ \A i \in 1..(n - 1) : from(i + 1) = from(i) + c[i].bufferSize
            /\ from(n) + c[n].bufferSize = flash.addr + flash.size

\* a write of the largest size went over as many chunks as there are regions
C27_Witness ==
    /\ flash.pc = "returned" /\ flash.size = MaxFlashSize /\ Len(flash.chunks) = MaxRegions

\* C28: every chunk alignToFlashRegions returns carries the addr and size of
\* the region found for its first address (the first region of the list that
\* holds it), lies inside that region, and its isPartial flag is true exactly
\* when bufferOffset is not 0 or bufferSize is not the size of the region.
C28_ChunkCarriesRegion ==
    flash.pc = "returned" =>
        \A i \in 1..Len(flash.chunks) :
            LET c == flash.chunks[i]
                a == c.addr + c.bufferOffset
                holds(r) == r.addr <= a /\ a < r.addr + r.size
            IN  /\ \E j \in 1..Len(flash.regions) :
                     /\ holds(flash.regions[j])
                     /\ \A k \in 1..(j - 1) : ~holds(flash.regions[k])
                     /\ c.addr = flash.regions[j].addr /\ c.size = flash.regions[j].size
                /\ c.bufferOffset >= 0 /\ c.bufferOffset + c.bufferSize <= c.size
                /\ c.isPartial <=> (c.bufferOffset # 0 \/ c.bufferSize # c.size)

\* a whole region and then the first part of the next one
C28_Witness ==
    /\ flash.pc = "returned" /\ Len(flash.chunks) = 2
    /\ ~flash.chunks[1].isPartial
    /\ flash.chunks[2].isPartial /\ flash.chunks[2].bufferOffset = 0

\* C29: alignToFlashRegions(addr, size, regions) throws exactly when size > 0
\* and some address of [addr, addr + size) lies in no region (a region holds a
\* when region.addr <= a < region.addr + region.size); it hands back no chunks
\* then; for size = 0 it returns the empty list for every addr.
C29_ThrowsIffOutOfBounds ==
    flash.pc \in {"returned", "thrown"} =>
        LET inRegion(a) == \E j \in 1..Len(flash.regions) :
                              flash.regions[j].addr <= a
                                  /\ a < flash.regions[j].addr + flash.regions[j].size
            outside == \E a \in flash.addr..(flash.addr + flash.size - 1) : ~inRegion(a)
        IN  /\ flash.pc = "thrown" <=> (flash.size > 0 /\ outside)
            /\ flash.pc = "thrown" => flash.chunks = <<>>
            /\ flash.size = 0 => flash.pc = "returned" /\ flash.chunks = <<>>

\* the first addresses are inside a region, a later one is not
C29_Witness ==
    /\ flash.pc = "thrown" /\ flash.size = MaxFlashSize
    /\ \E j \in 1..Len(flash.regions) :
         /\ flash.regions[j].addr = flash.addr /\ flash.regions[j].size = 2

\* ---------------------------------------------------------------------------
\* C30: an operation (read, readByte, write, getSignals, setSignals, update)
\* called on a closed AsyncSerialPort fails with the error "Port is not open":
\* its promise is rejected by the call, and in no later state, whatever the
\* stream does with the forwarded call, is it resolved.
\* ---------------------------------------------------------------------------
C30_ClosedPortFails ==
    (asp.op # "none" /\ ~asp.atOpen) =>
        /\ asp.settled = "rejected"
        /\ asp.error = "Port is not open"
        /\ asp.value = "none"

\* getSignals was called on a closed port and the stream, which received the call
\* all the same, has thrown or has called back
C30_Witness ==
    /\ asp.op = "getSignals"
    /\ ~asp.atOpen
    /\ asp.forwarded
    /\ ~asp.cbPending
    /\ asp.settled = "rejected"

\* ---------------------------------------------------------------------------
\* C31: AsyncSerialPort.read(n, t) resolves with at most n bytes, with fewer
\* than n only on timeout, close or end, never waits once n bytes are there,
\* leaves no listener or timer behind, and the bytes of the consecutive reads,
\* concatenated, are a prefix of the received stream 1, 2, 3, ...
\* ---------------------------------------------------------------------------
C31_ReadContract ==
    /\ ard.last.n <= ard.last.size
    /\ (ard.last.how \in {"direct", "full"}) => ard.last.n = ard.last.size
    /\ ard.pc = "pending" => Len(ard.result) < ard.size
    /\ ard.pc # "pending" => ~ard.listeners /\ ~ard.timer
    /\ ard.returned = [i \in 1..Len(ard.returned) |-> i]

\* the parts of C31 that do not depend on a rejected read
C31_ReadSizesAndListeners ==
    /\ ard.last.n <= ard.last.size
    /\ (ard.last.how \in {"direct", "full"}) => ard.last.n = ard.last.size
    /\ ard.pc = "pending" => Len(ard.result) < ard.size
    /\ ard.pc # "pending" => ~ard.listeners /\ ~ard.timer

\* ---------------------------------------------------------------------------
\* C32 as stated: a call that returns with the cancel signal set returns ABORTED;
\* otherwise the payload is written
\* only after a scan byte B0 or C0, the first reply byte decides the status, and
\* success is true exactly for SUCCESS.
\* ---------------------------------------------------------------------------
C32_OutcomeIsFunctionOfEvents ==
    /\ bsl.payloadWritten => bsl.cpuType \in {176, 192}
    /\ bsl.pc = "returned" =>
        /\ bsl.success = (bsl.status = "SUCCESS")
        /\ IF bsl.aborted THEN bsl.status = "ABORTED"
           ELSE /\ bsl.payloadWritten
                /\ bsl.status = (IF bsl.response = -1 THEN "TIMEOUT"
                                 ELSE IF bsl.response \in {193, 177} THEN "SUCCESS"
                                 ELSE IF bsl.response \in {28, 27} THEN "DENIED"
                                 ELSE "UNKNOWN")

\* C32, amended: the signal counts as it is when the test after the scan reads it
\* (a signal set later, while the payload is written or the reply is awaited, is
\* not observed).  Set at that test: no payload, ABORTED.  Not set: the payload is
\* written after a scan byte B0 or C0 and the first reply byte decides.
C32_OutcomeIsFunctionOfObservedEvents ==
    /\ bsl.payloadWritten => bsl.cpuType \in {176, 192} /\ ~bsl.abortedAtCheck
    /\ bsl.pc = "returned" =>
        /\ bsl.success = (bsl.status = "SUCCESS")
        /\ IF bsl.abortedAtCheck THEN bsl.status = "ABORTED" /\ ~bsl.payloadWritten
           ELSE /\ bsl.payloadWritten
                /\ bsl.status = (IF bsl.response = -1 THEN "TIMEOUT"
                                 ELSE IF bsl.response \in {193, 177} THEN "SUCCESS"
                                 ELSE IF bsl.response \in {28, 27} THEN "DENIED"
                                 ELSE "UNKNOWN")

\* the signal was set while the reply was awaited, and the reply 1B made it DENIED
C32_Witness ==
    /\ bsl.pc = "returned"
    /\ bsl.aborted
    /\ ~bsl.abortedAtCheck
    /\ bsl.response = 27
    /\ bsl.status = "DENIED"

\* ---------------------------------------------------------------------------
\* C33: a readMemory of BFC or ChaosLoader whose signal is set returns at the
\* top of the next chunk with canceled = TRUE and a buffer truncated to the
\* bytes read so far, and asks for no further chunk; a call that is not
\* cancelled returns the whole range.
\* ---------------------------------------------------------------------------
C33_CancelTruncatesBuffer ==
    brd.pc = "returned" =>
        /\ brd.result.canceled = (brd.cursor < brd.length)
        /\ brd.result.canceled => brd.aborted
        /\ brd.result.bufferLength = brd.cursor
        /\ brd.result.progressCursor = brd.cursor

\* the parts of C33 that do not depend on the buffer: a cancelled call was aborted
\* and stopped short, the last onProgress reports the cursor, and a call that is
\* not cancelled returns a buffer of the bytes read
C33_CancelObservedAtLoopTop ==
    /\ brd.pc = "returned" =>
        /\ brd.result.canceled = (brd.cursor < brd.length)
        /\ brd.result.canceled => brd.aborted
        /\ brd.result.progressCursor = brd.cursor
    /\ brd.pc = "returned" /\ ~brd.result.canceled => brd.result.bufferLength = brd.cursor

\* ---------------------------------------------------------------------------
\* C34: given the same configuration and the same outcomes of the chunk
\* primitive, ioReadMemory and ioWriteMemory are at the same point after every
\* outcome: same cursor, same size of the pending chunk, same page size, same
\* errors count and the same end (returned or thrown, and the error thrown).
\* ---------------------------------------------------------------------------
C34_WriteSymmetricToRead ==
    /\ sym.r.pc = sym.w.pc
    /\ sym.r.cursor = sym.w.cursor
    /\ sym.r.size = sym.w.size
    /\ sym.r.pageSize = sym.w.pageSize
    /\ sym.r.errors = sym.w.errors
    /\ sym.r.thrown = sym.w.thrown

\* what the two loops do share: the retry budget (retriesCount) and the errors count
C34_SameRetryBudget ==
    (sym.r.pc = "chunk" /\ sym.w.pc = "chunk") =>
        sym.r.retriesCount = sym.w.retriesCount /\ sym.r.errors = sym.w.errors

\* ---------------------------------------------------------------------------
\* C35: ioReadMemory and ioWriteMemory terminate for every configuration their
\* checks accept: every chunk attempt that ends either advances the cursor or
\* uses up retry budget (retriesCount grows towards maxRetries) or ends the
\* call, so no run goes round the loop for ever.
\* ---------------------------------------------------------------------------
C35_EveryAttemptMakesProgress ==
    [][(ioPc = "chunk" /\ ioPc' # "chunk") =>
          \/ cursor' > cursor
          \/ retriesCount' > retriesCount
          \/ ioPc' = "thrown"]_vars

\* the same with a page size above zero: the measure that bounds the attempts
C35_PositivePageMakesProgress ==
    [][(ioPc = "chunk" /\ ioPc' # "chunk" /\ pageSize > 0) =>
          \/ cursor' > cursor /\ cursor' <= ioLength
          \/ retriesCount' > retriesCount /\ retriesCount' < api.maxRetries
          \/ ioPc' = "thrown"]_vars

\* ---------------------------------------------------------------------------
\* C36: readMemory and writeMemory of the ChaosLoader do not retry a page for
\* ever: a page that failed while the phone answers the pings is asked for
\* again only with something used up, so the locals the loop reads (cursor,
\* page size, try count) are never the same after a failed page as before it;
\* a failed page after which no ping is answered ends the call with an error.
\* ---------------------------------------------------------------------------
C36_FailedPageUsesBudget ==
    [][(cio.pc = "page" /\ cio'.fails > cio.fails) =>
          \/ cio'.pc = "thrown"
          \/ cio'.pc = "returned"
          \/ <<cio'.done, cio'.pageSize, cio'.tryCount>> # <<cio.done, cio.pageSize, cio.tryCount>>]_vars

\* the second half of C36: the call throws only out of a failed page, with the
\* cursor where it was, and the throw is the end of that call
C36_LostPhoneThrows ==
    [][/\ (cio.pc = "page" /\ cio'.pc = "thrown") =>
              cio'.fails = cio.fails + 1 /\ cio'.done = cio.done
       /\ cio.pc = "thrown" => cio'.fails = 0 /\ cio'.done = 0]_vars

\* ---------------------------------------------------------------------------
\* C37: the packets extracted by BFC.handleSerialData depend only on the bytes
\* received so far, not on the data events they came in: two receivers that
\* have received the same prefix of one stream, in whatever chunks, have handed
\* the same packets to handleBfcPacket in the same order and hold the same
\* receive buffer.
\* ---------------------------------------------------------------------------
C37_ChunkingIndependent ==
    rxp.a.fed = rxp.b.fed => rxp.a.pkts = rxp.b.pkts /\ rxp.a.buffer = rxp.b.buffer

\* noise 00, then the header 00 00 00 01 00 01 and its payload byte: both
\* receivers, fed in different data events, have the one packet and an empty buffer
C37_Witness ==
    /\ rxp.a.fed = Len(rxp.stream)
    /\ rxp.b.fed = Len(rxp.stream)
    /\ rxp.stream = <<0, 0, 0, 0, 1, 0, 1, 1>>
    /\ Len(rxp.a.pkts) = 1
    /\ Len(rxp.b.pkts) = 1
    /\ rxp.a.buffer = <<>>

\* ---------------------------------------------------------------------------
\* C38: when a ChaosLoader operation that stops the heartbeat (ping, setSpeed,
\* testMemory, readMemory, writeMemory) ends, by return or by throw, the
\* heartbeat timer is running again.
\* ---------------------------------------------------------------------------
C38_HeartbeatResumedAfterOp ==
    [][(chaos.op \in {"ping", "setSpeed", "testMemory", "readMemory", "writeMemory"}
        /\ chaos'.op = "none") => chaos'.heartbeatTimer]_vars

\* the operations for which C38 does hold once their request is written: ping
\* and testMemory start the timer before they look at the response
C38_PingAndTestResume ==
    [][(chaos.op \in {"ping", "testMemory"} /\ chaos'.op = "none") =>
          chaos'.heartbeatTimer]_vars

\* ---------------------------------------------------------------------------
\* C39: when ioReadMemory or ioWriteMemory returns (completed or cancelled),
\* exactly one onProgress callback was made after the last chunk attempt, and
\* it reported the final cursor, which is the length of the returned buffer of
\* a cancelled read and `written` of a write, for every progress interval and
\* also when it is the first callback of the call.
\* ---------------------------------------------------------------------------
C39_OneFinalProgress ==
    ioPc = "returned" =>
        /\ progress.calls = 1
        /\ progress.last = cursor
        /\ (ioOp = "write" \/ ioResult.canceled) => ioResult.length = progress.last
        /\ (ioOp = "read" /\ ~ioResult.canceled) => progress.last = ioLength

\* a read with a progress interval was cancelled after its first chunk, and the
\* callback after the loop is the only one the call has made
C39_Witness ==
    /\ ioPc = "returned" /\ ioOp = "read" /\ ioResult.canceled
    /\ progressInterval # 0
    /\ cursor > 0 /\ cursor < ioLength
    /\ progress.prev = -1
    /\ progress.last = cursor

(***************************************************************************)
(* Properties of the queued exec calls (checked under SpecBfq)             *)
(***************************************************************************)
\* the exec calls waiting in createReceiver for the promise of receiver r
BfqWaiters(r) ==
    {e \in QueuedExecs : bfq.bfc.exec[e].pc = "waiting" /\ bfq.bfc.exec[e].waitOn = r}

BfqWoken == {e \in QueuedExecs : bfq.bfc.exec[e].pc = "woken"}

\* the frames exec e has written
BfqFramesOf(b, e) == {i \in 1..Len(b.writes) : b.writes[i].exec = e}

\* C40: when the live receiver of the key fails (timeout, CRC error, close),
\* every exec waiting behind it fails in the same step with the same error,
\* has registered no receiver and written no frame, and stays failed; when it
\* succeeds, every exec waiting behind it is woken and the slot is free, and
\* the step after that is the run of exactly one of them, which registers its
\* receiver and writes its frame while the others stay queued; an exec that
\* runs when the slot is taken waits for the receiver holding it
C40_QueueFollowsLiveReceiver ==
    [][LET b == bfq.bfc
           c == bfq'.bfc
           r == b.frameReceivers[DEFAULT_CHANNEL_ID]
       IN  /\ (r # 0 /\ c.exec[r].pc = "failed") =>
                /\ c.exec[r].error \in {"timeout", "invalid_crc", "closed"}
                /\ c.writes = b.writes
                /\ \A e \in BfqWaiters(r) :
                    /\ c.exec[e].pc = "failed"
                    /\ c.exec[e].error = c.exec[r].error
                    /\ c.frameReceivers[DEFAULT_CHANNEL_ID] # e
                    /\ BfqFramesOf(c, e) = {}
           /\ \A e \in QueuedExecs : b.exec[e].pc = "failed" =>
                /\ c.exec[e] = b.exec[e]
                /\ c.frameReceivers[DEFAULT_CHANNEL_ID] # e
                /\ BfqFramesOf(c, e) = BfqFramesOf(b, e)
           /\ (r # 0 /\ c.exec[r].pc = "done") =>
                /\ c.frameReceivers[DEFAULT_CHANNEL_ID] = 0
                /\ c.writes = b.writes
                /\ \A e \in BfqWaiters(r) : c.exec[e].pc = "woken"
           /\ BfqWoken # {} =>
                \E e \in BfqWoken :
                    /\ \A d \in QueuedExecs \ {e} : c.exec[d] = b.exec[d]
                    /\ IF r = 0
                       THEN /\ c.exec[e].pc = "sent"
                            /\ c.frameReceivers[DEFAULT_CHANNEL_ID] = e
                            /\ Len(c.writes) = Len(b.writes) + 1
                            /\ c.writes[Len(c.writes)].exec = e
                       ELSE /\ c.exec[e].pc = "waiting" /\ c.exec[e].waitOn = r
                            /\ c.frameReceivers[DEFAULT_CHANNEL_ID] = r
                            /\ c.writes = b.writes
      ]_vars

\* an exec waits only for the receiver that holds the slot now
C40_WaitersFollowLiveReceiver ==
    \A e \in QueuedExecs : bfq.bfc.exec[e].pc = "waiting" =>
        /\ bfq.bfc.frameReceivers[DEFAULT_CHANNEL_ID] = bfq.bfc.exec[e].waitOn
        /\ bfq.bfc.exec[bfq.bfc.exec[e].waitOn].pc = "sent"

\* exec 1 was answered, exec 2, queued behind it, then took the slot and timed
\* out, and exec 3, queued behind exec 2, failed with that timeout without
\* writing a frame
C40_Witness ==
    /\ bfq.bfc.exec[1].pc = "done"
    /\ bfq.bfc.exec[2].pc = "failed" /\ bfq.bfc.exec[2].error = "timeout"
    /\ bfq.bfc.exec[3].pc = "failed" /\ bfq.bfc.exec[3].error = "timeout"
    /\ bfq.bfc.exec[2].waitOn = 1 /\ bfq.bfc.exec[3].waitOn = 2
    /\ BfqFramesOf(bfq.bfc, 2) # {} /\ BfqFramesOf(bfq.bfc, 3) = {}

=============================================================================
